---- MODULE Spec2Model ----
(***************************************************************************)
(* A model of the Gerber viewer core: the Gerber parser with its polarity  *)
(* segmentation, flash / stroke / region executor, the macro expression    *)
(* evaluator, and the layer table of the WebGL renderer.                   *)
(*                                                                         *)
(* Numbers.  Coordinates are f32 millimetres in the program.  The model    *)
(* draws every coordinate from small sets of integers, on which the f32    *)
(* operations used here (+, -, *, comparison) are exact.                   *)
(***************************************************************************)
EXTENDS Integers, Sequences, FiniteSets, TLC

VARIABLES
    \* ---- GerberParser (parser.rs GerberParser, parser/state.rs ParserState)
    state,               \* current_state : ParserState
    apertures,           \* code -> Aperture
    current_primitives,  \* primitives accumulating for the current polarity
    positive_layers,     \* flushed positive sublayers
    negative_layers,     \* flushed negative sublayers
    region_contours,     \* contours collected in region mode
    i,                   \* line index of the parse loop
    parse_result,        \* done = FALSE while parsing, then the returned sublayer list
    \* ---- history of the parse (not read by the program)
    emitted,             \* emitted[k] = polarity current when primitive k was produced
    last,                \* what the last command was and what it started from
    \* ---- Renderer (renderer.rs)
    layers,              \* Vec<Option<LayerMetadata>>
    layer_count,
    active_layer_ids,
    layer_colors,        \* number of colour floats given with the active ids
    gl_objects,          \* WebGL objects created and not deleted
    gl_next,             \* next WebGL object handle
    draw_log,            \* draw calls of the last render
    call,                \* the last renderer call and its result
    ops,                 \* number of renderer calls made
    \* ---- expression evaluator (parser/aperture_macro.rs)
    expr,                \* the expression text, a sequence of characters
    eval_pc,             \* "tokenize" | "muldiv" | "addsub" | "done"
    tokens,              \* the token stream between the passes
    eval_result,         \* Result<f32, String>
    \* ---- macro instantiation (parser/aperture_macro.rs ApertureMacro::instantiate)
    statements,          \* the statements of the macro, each split at its commas
    params,              \* the parameters given by %ADD
    variables,           \* HashMap $n -> value
    macro_primitives,    \* the primitives pushed so far
    stmt_idx,            \* statements processed so far
    pushed,              \* history: pushed[k] = primitives pushed by statement k
    \* ---- sublayer conversion (parser.rs GerberParser::primitives_to_gerber_data)
    sublayer_prims,      \* the primitives of one sublayer
    sublayer_data,       \* done = FALSE before the conversion, then the GerberData
    \* ---- ODB++ features (parser_odb/features.rs parse_features)
    features,            \* the feature records, each split at its blanks
    feature_idx,         \* records processed so far
    odb_primitives,      \* the primitives pushed so far
    odb_pushed,          \* history: odb_pushed[k] = primitives pushed by record k
    \* ---- a second GerberParser, given the same lines without the %IF lines
    without_if,          \* its polarity, accumulating list, tables and result
    \* ---- one GerberProcessor session (lib.rs add_layer -> parser.rs parse_gerber)
    macros,              \* names of the macros defined by %AM
    parses,              \* history: what each earlier parse_gerber call left behind
    \* ---- the line loop of GerberParser::parse and parse_command
    lines,               \* the trimmed lines of the input, each a sequence of characters
    line_idx,            \* i of parse, 0-based
    loop_pc,             \* "main" | "join" | "done"
    buffer,              \* the lines joined so far by parse_command
    executed             \* history: the commands run, with the lines each consumed

parser_vars == <<state, apertures, current_primitives, positive_layers, negative_layers,
                 region_contours, i, parse_result, emitted, last>>
renderer_vars == <<layers, layer_count, active_layer_ids, layer_colors, gl_objects,
                   gl_next, draw_log, call, ops>>
eval_vars == <<expr, eval_pc, tokens, eval_result>>
macro_vars == <<statements, params, variables, macro_primitives, stmt_idx, pushed>>
data_vars == <<sublayer_prims, sublayer_data>>
odb_vars == <<features, feature_idx, odb_primitives, odb_pushed>>
twin_vars == <<without_if>>
session_vars == <<macros, parses>>
loop_vars == <<lines, line_idx, loop_pc, buffer, executed>>
vars == <<parser_vars, renderer_vars, eval_vars, macro_vars, data_vars, odb_vars,
    twin_vars, session_vars, loop_vars>>

non_parser_vars == <<renderer_vars, eval_vars, macro_vars, data_vars, odb_vars,
    twin_vars, session_vars, loop_vars>>
non_renderer_vars == <<parser_vars, eval_vars, macro_vars, data_vars, odb_vars,
    twin_vars, session_vars, loop_vars>>
non_eval_vars == <<parser_vars, renderer_vars, macro_vars, data_vars, odb_vars,
    twin_vars, session_vars, loop_vars>>
non_macro_vars == <<parser_vars, renderer_vars, eval_vars, data_vars, odb_vars,
    twin_vars, session_vars, loop_vars>>
non_data_vars == <<parser_vars, renderer_vars, eval_vars, macro_vars, odb_vars,
    twin_vars, session_vars, loop_vars>>
non_odb_vars == <<parser_vars, renderer_vars, eval_vars, macro_vars, data_vars,
    twin_vars, session_vars, loop_vars>>
non_twin_vars == <<parser_vars, renderer_vars, eval_vars, macro_vars, data_vars, odb_vars,
    session_vars, loop_vars>>
non_session_vars == <<parser_vars, renderer_vars, eval_vars, macro_vars, data_vars, odb_vars,
    twin_vars, loop_vars>>
non_loop_vars == <<parser_vars, renderer_vars, eval_vars, macro_vars, data_vars, odb_vars,
    twin_vars, session_vars>>
\* everything but the parser and the second parser
non_parser_twin_vars == <<renderer_vars, eval_vars, macro_vars, data_vars, odb_vars,
    session_vars, loop_vars>>
\* everything but the parser and the session
non_parser_session_vars == <<renderer_vars, eval_vars, macro_vars, data_vars, odb_vars,
    twin_vars, loop_vars>>

(***************************************************************************)
(* Sequence helpers                                                        *)
(***************************************************************************)
RECURSIVE Concat(_)
Concat(ss) == IF ss = <<>> THEN <<>> ELSE Head(ss) \o Concat(Tail(ss))

RECURSIVE SumLens(_)
SumLens(ss) == IF ss = <<>> THEN 0 ELSE Len(Head(ss)) + SumLens(Tail(ss))

Max(a, b) == IF a >= b THEN a ELSE b
Min(a, b) == IF a <= b THEN a ELSE b
Abs(a) == IF a < 0 THEN -a ELSE a

(***************************************************************************)
(* Primitives (parser/geometry.rs Primitive).  One record shape for every  *)
(* variant: pts holds the centre of a Circle or the three vertices of a    *)
(* Triangle.  A Mesh stands for the list of triangles the external         *)
(* triangulator returns for one boolean-operation result; cells is the     *)
(* area it covers.  id is history: the emission number, 0 in an aperture.  *)
(***************************************************************************)
Circle(x, y, radius, exposure) ==
    [kind |-> "Circle", pts |-> << <<x, y>> >>, radius |-> radius, exposure |-> exposure,
     hole |-> <<0, 0>>, hole_radius |-> 0, cells |-> {}, id |-> 0]

Triangle(vertices, exposure) ==
    [kind |-> "Triangle", pts |-> vertices, radius |-> 0, exposure |-> exposure,
     hole |-> <<0, 0>>, hole_radius |-> 0, cells |-> {}, id |-> 0]

Mesh(cells) ==
    [kind |-> "Mesh", pts |-> <<>>, radius |-> 0, exposure |-> 1,
     hole |-> <<0, 0>>, hole_radius |-> 0, cells |-> cells, id |-> 0]

\* The primitive without its emission number.
Geom(p) == [p EXCEPT !.id = 0]

ScalePt(pt, s) == <<pt[1] * s, pt[2] * s>>
MovePt(pt, dx, dy) == <<pt[1] + dx, pt[2] + dy>>

\* scale_primitive: a Circle keeps its centre, its radius and hole radius are
\* scaled; a Triangle has its vertices and hole radius scaled.
scale_primitive(p, scale) ==
    IF scale = 1 THEN p
    ELSE IF p.kind = "Circle"
         THEN [p EXCEPT !.radius = @ * scale, !.hole_radius = @ * scale]
         ELSE [p EXCEPT !.pts = [k \in DOMAIN @ |-> ScalePt(@[k], scale)],
                        !.hole_radius = @ * scale]

offset_primitive_by(p, dx, dy) ==
    [p EXCEPT !.pts = [k \in DOMAIN @ |-> MovePt(@[k], dx, dy)],
              !.hole = MovePt(@, dx, dy),
              !.cells = {MovePt(c, dx, dy) : c \in @}]

(***************************************************************************)
(* Plane geometry on integer points                                        *)
(***************************************************************************)
Cross(a, b, c) == (b[1] - a[1]) * (c[2] - a[2]) - (b[2] - a[2]) * (c[1] - a[1])

\* p lies in the closed triangle <<a, b, c>> (either orientation).
InTriangle(p, t) ==
    LET d1 == Cross(t[1], t[2], p)
        d2 == Cross(t[2], t[3], p)
        d3 == Cross(t[3], t[1], p)
    IN  \/ d1 >= 0 /\ d2 >= 0 /\ d3 >= 0
        \/ d1 <= 0 /\ d2 <= 0 /\ d3 <= 0

\* p lies strictly inside the triangle <<a, b, c>>.
StrictlyInTriangle(p, t) ==
    LET d1 == Cross(t[1], t[2], p)
        d2 == Cross(t[2], t[3], p)
        d3 == Cross(t[3], t[1], p)
    IN  \/ d1 > 0 /\ d2 > 0 /\ d3 > 0
        \/ d1 < 0 /\ d2 < 0 /\ d3 < 0

\* triangulate_outline: fewer than 3 vertices is an error; otherwise the
\* external triangulator is given the contour as the one boundary of a shape
\* and returns triangles covering it.  The model fans from the first vertex
\* and drops the triangles of no area: that is the triangulation of a
\* 3-point contour, and a valid one of any convex contour.
triangulate_outline(vertices, exposure) ==
    IF Len(vertices) < 3
    THEN [ok |-> FALSE, triangles |-> <<>>]
    ELSE LET fan == [k \in 1..(Len(vertices) - 2) |->
                       Triangle(<<vertices[1], vertices[k + 1], vertices[k + 2]>>, exposure)]
             HasArea(t) == Cross(t.pts[1], t.pts[2], t.pts[3]) # 0
         IN  [ok |-> TRUE, triangles |-> SelectSeq(fan, HasArea)]

\* line_to_triangles: nothing for a zero-length line, else the two triangles
\* (v1, v2, v3), (v2, v4, v3) of the rectangle of the given width around it.
\* The model draws strokes along the axes only, where the perpendicular
\* offset is exact: half_width along the other axis.
line_to_triangles(start_x, start_y, end_x, end_y, width, exposure) ==
    LET dx == end_x - start_x
        dy == end_y - start_y
        len == Abs(dx) + Abs(dy)        \* the length of an axis-parallel line
        half_width == width \div 2
        perp_x == IF len = 0 THEN 0 ELSE ((0 - dy) \div len) * half_width
        perp_y == IF len = 0 THEN 0 ELSE (dx \div len) * half_width
        v1 == <<start_x + perp_x, start_y + perp_y>>
        v2 == <<start_x - perp_x, start_y - perp_y>>
        v3 == <<end_x + perp_x, end_y + perp_y>>
        v4 == <<end_x - perp_x, end_y - perp_y>>
    IN  IF len = 0 THEN <<>>
        ELSE <<Triangle(<<v1, v2, v3>>, exposure), Triangle(<<v2, v4, v3>>, exposure)>>

(***************************************************************************)
(* Boolean-operation pipeline (parser/geometry.rs).  The polygon overlay   *)
(* and the triangulator are external libraries; the model keeps of a       *)
(* polygon the set of integer points it covers, so that union and          *)
(* difference are the set operations.                                      *)
(***************************************************************************)
primitive_to_polygon(p) ==
    IF p.kind = "Circle"
    THEN LET c == p.pts[1]
             r == p.radius
         IN  {q \in ((c[1] - r)..(c[1] + r)) \X ((c[2] - r)..(c[2] + r)) :
                (q[1] - c[1]) * (q[1] - c[1]) + (q[2] - c[2]) * (q[2] - c[2]) <= r * r}
    ELSE IF p.kind = "Triangle"
    THEN LET xs == {p.pts[k][1] : k \in 1..3}
             ys == {p.pts[k][2] : k \in 1..3}
             lo(S) == CHOOSE m \in S : \A n \in S : m <= n
             hi(S) == CHOOSE m \in S : \A n \in S : m >= n
         IN  {q \in (lo(xs)..hi(xs)) \X (lo(ys)..hi(ys)) : InTriangle(q, p.pts)}
    ELSE p.cells

RECURSIVE FirstPositive(_, _)
\* position of the first shape with exposure > 0.5, 0 when there is none
FirstPositive(shapes, k) ==
    IF k > Len(shapes) THEN 0
    ELSE IF shapes[k].exposure = 1 THEN k
    ELSE FirstPositive(shapes, k + 1)

RECURSIVE OverlayFrom(_, _, _, _)
\* the loop over every shape but the first positive one, in list order;
\* an empty accumulator ends it
OverlayFrom(shapes, first_idx, k, acc) ==
    IF k > Len(shapes) THEN acc
    ELSE IF k = first_idx THEN OverlayFrom(shapes, first_idx, k + 1, acc)
    ELSE LET next == IF shapes[k].exposure = 1
                     THEN acc \cup shapes[k].poly
                     ELSE acc \ shapes[k].poly
         IN  IF next = {} THEN {} ELSE OverlayFrom(shapes, first_idx, k + 1, next)

apply_boolean_operations(shapes) ==
    LET first_idx == FirstPositive(shapes, 1)
        cells == IF first_idx = 0 THEN {}
                 ELSE OverlayFrom(shapes, first_idx, 1, shapes[first_idx].poly)
    IN  IF cells = {} THEN <<>> ELSE <<Mesh(cells)>>

(***************************************************************************)
(* Apertures (parser/aperture.rs)                                          *)
(***************************************************************************)
Aperture(radius, primitives, has_negative) ==
    [radius |-> radius, primitives |-> primitives, has_negative |-> has_negative]

\* %ADDnnC,d : one circle of radius d/2
ApertureC(diameter) ==
    Aperture(diameter \div 2, <<Circle(0, 0, diameter \div 2, 1)>>, FALSE)

\* %ADDnnR,wXh : two triangles (v1, v2, v3), (v1, v3, v4)
ApertureR(width, height) ==
    LET hw == width \div 2
        hh == height \div 2
        v1 == <<0 - hw, 0 - hh>>
        v2 == <<hw, 0 - hh>>
        v3 == <<hw, hh>>
        v4 == <<0 - hw, hh>>
    IN  Aperture(Max(width, height) \div 2,
                 <<Triangle(<<v1, v2, v3>>, 1), Triangle(<<v1, v3, v4>>, 1)>>, FALSE)

\* a macro aperture of a dark circle with a clear circle inside it (the macro
\* has an exposure 0 primitive, so has_negative is set; the radius of a macro
\* aperture is 0)
ApertureRing(outer, inner) ==
    Aperture(0,
             <<Circle(0, 0, outer \div 2, 1), Circle(0, 0, inner \div 2, 0)>>, TRUE)

(***************************************************************************)
(* Flash and stroke (parser/geometry.rs)                                   *)
(***************************************************************************)
\* the direct clone of one aperture primitive at (x, y)
ClonePrimitive(primitive, x, y, layer_scale) ==
    LET new_primitive == scale_primitive(primitive, layer_scale)
    IN  [new_primitive EXCEPT !.pts = [k \in DOMAIN @ |-> MovePt(@[k], x, y)],
                              !.hole = MovePt(@, x, y)]

flash_aperture_no_sr(aperture, x, y, layer_scale) ==
    IF aperture.has_negative
    THEN apply_boolean_operations(
             [k \in 1..Len(aperture.primitives) |->
                LET offset_p == offset_primitive_by(
                                    scale_primitive(aperture.primitives[k], layer_scale), x, y)
                IN  [poly |-> primitive_to_polygon(offset_p), exposure |-> offset_p.exposure]])
    ELSE [k \in 1..Len(aperture.primitives) |->
            ClonePrimitive(aperture.primitives[k], x, y, layer_scale)]

\* the step-and-repeat loop: sy outer, sx inner
SrCopies(st) == [k \in 1..(st.sr_x * st.sr_y) |->
                   [sx |-> (k - 1) % st.sr_x, sy |-> (k - 1) \div st.sr_x]]

\* C5 mutant: the step offsets of the two axes are exchanged
FlashSwappedSteps(st, aps, x, y) ==
    IF st.current_aperture \in DOMAIN aps
    THEN LET aperture == aps[st.current_aperture]
             copies == SrCopies(st)
         IN  Concat([k \in 1..Len(copies) |->
                       flash_aperture_no_sr(aperture,
                                            x + copies[k].sy * st.sr_i,
                                            y + copies[k].sx * st.sr_j,
                                            st.layer_scale)])
    ELSE <<>>

flash_aperture(st, aps, x, y) ==
    IF st.current_aperture \in DOMAIN aps
    THEN LET aperture == aps[st.current_aperture]
             copies == SrCopies(st)
         IN  Concat([k \in 1..Len(copies) |->
                       flash_aperture_no_sr(aperture,
                                            x + copies[k].sx * st.sr_i,
                                            y + copies[k].sy * st.sr_j,
                                            st.layer_scale)])
    ELSE <<>>

\* C20 mutant: the rectangle of the stroke is pushed before the two flashes
StrokeBeforeFlashes(st, aps, end_x, end_y) ==
    IF st.current_aperture \in DOMAIN aps /\ st.interpolation_mode = "linear"
    THEN LET aperture == aps[st.current_aperture]
             copies == SrCopies(st)
             diameter == aperture.radius * 2 * st.layer_scale
         IN  Concat([k \in 1..Len(copies) |->
                LET offset_x == copies[k].sx * st.sr_i
                    offset_y == copies[k].sy * st.sr_j
                IN  line_to_triangles(st.x + offset_x, st.y + offset_y,
                                      end_x + offset_x, end_y + offset_y, diameter, 1)
                    \o flash_aperture_no_sr(aperture, st.x + offset_x, st.y + offset_y,
                                            st.layer_scale)
                    \o flash_aperture_no_sr(aperture, end_x + offset_x, end_y + offset_y,
                                            st.layer_scale)])
    ELSE <<>>

\* execute_interpolation, linear modes.  The arc modes are entered by G02 and
\* G03 only, which the inputs of this model never issue.
execute_interpolation(st, aps, end_x, end_y) ==
    IF st.current_aperture \in DOMAIN aps /\ st.interpolation_mode = "linear"
    THEN LET aperture == aps[st.current_aperture]
             copies == SrCopies(st)
             diameter == aperture.radius * 2 * st.layer_scale
         IN  Concat([k \in 1..Len(copies) |->
                LET offset_x == copies[k].sx * st.sr_i
                    offset_y == copies[k].sy * st.sr_j
                    sr_start_x == st.x + offset_x
                    sr_start_y == st.y + offset_y
                    sr_end_x == end_x + offset_x
                    sr_end_y == end_y + offset_y
                IN  flash_aperture_no_sr(aperture, sr_start_x, sr_start_y, st.layer_scale)
                    \o line_to_triangles(sr_start_x, sr_start_y, sr_end_x, sr_end_y,
                                         diameter, 1)
                    \o flash_aperture_no_sr(aperture, sr_end_x, sr_end_y, st.layer_scale)])
    ELSE <<>>

\* G37: every contour of 3 or more points is triangulated on its own, and the
\* triangles are repeated for each step-and-repeat copy
RegionTriangles(st, contours) ==
    Concat([c \in 1..Len(contours) |->
       IF Len(contours[c]) >= 3
       THEN LET res == triangulate_outline(contours[c], 1)
                copies == SrCopies(st)
            IN  IF res.ok
                THEN Concat([k \in 1..Len(copies) |->
                        [t \in 1..Len(res.triangles) |->
                           offset_primitive_by(res.triangles[t],
                                               copies[k].sx * st.sr_i,
                                               copies[k].sy * st.sr_j)]])
                ELSE <<>>
       ELSE <<>>])

(***************************************************************************)
(* Parser state (parser/state.rs ParserState::default, parser.rs           *)
(* GerberParser::new).  Coordinates are given in whole millimetres, so the *)
(* format divisor does not appear; the unit multiplier and the G-code      *)
(* scale stay at 1 (no %MOIN, G70, G10..G12 in the inputs).                *)
(***************************************************************************)
Some(v) == [some |-> TRUE, v |-> v]
None == [some |-> FALSE, v |-> 0]

DefaultState ==
    [x |-> 0, y |-> 0, current_aperture |-> "", interpolation_mode |-> "linear",
     quadrant_mode |-> "single", region_mode |-> FALSE, coordinate_mode |-> "absolute",
     scale |-> 1, unit_multiplier |-> 1, i |-> 0, j |-> 0, pen_state |-> "up",
     polarity |-> "Positive", sr_x |-> 1, sr_y |-> 1, sr_i |-> 0, sr_j |-> 0,
     layer_scale |-> 1, mirror_x |-> FALSE, mirror_y |-> FALSE]

\* The aperture table the inputs start from: the result of
\* %ADD10C,2*% %ADD11R,2X2*% and a macro aperture D12 with a clear primitive.
\* D13 is not defined.
InitialApertures ==
    [code \in {"10", "11", "12"} |->
        IF code = "10" THEN ApertureC(2)
        ELSE IF code = "11" THEN ApertureR(2, 2)
        ELSE ApertureRing(4, 2)]

\* block: the code of the %ABDn*% that is open, "" outside a block;
\* lm, ls: what the last %LM and %LS of the input asked for
NoLast == [op |-> "none", pre_len |-> 0, x |-> 0, y |-> 0, contours |-> <<>>,
           region |-> FALSE, block |-> "", lm |-> "N", ls |-> 1]

Last(op, x, y) == [op |-> op, pre_len |-> Len(current_primitives), x |-> x, y |-> y,
                   contours |-> region_contours, region |-> state.region_mode,
                   block |-> last.block, lm |-> last.lm, ls |-> last.ls]

InitParser ==
    /\ state = DefaultState
    /\ apertures = InitialApertures
    /\ current_primitives = <<>>
    /\ positive_layers = <<>>
    /\ negative_layers = <<>>
    /\ region_contours = <<>>
    /\ i = 0
    /\ parse_result = [done |-> FALSE, layers |-> <<>>]
    /\ emitted = <<>>
    /\ last = NoLast

\* primitives pushed onto current_primitives get the next emission numbers
Numbered(prims) == [k \in 1..Len(prims) |-> [prims[k] EXCEPT !.id = Len(emitted) + k]]

(***************************************************************************)
(* %LP (parser/state.rs parse_lp)                                          *)
(***************************************************************************)
parse_lp(polarity_char) ==
    /\ ~parse_result.done
    /\ i' = i + 1
    /\ last' = Last("LP", 0, 0)
    /\ IF polarity_char \notin {"D", "C"}
       THEN UNCHANGED <<state, current_primitives, positive_layers, negative_layers>>
       ELSE LET new_polarity == IF polarity_char = "D" THEN "Positive" ELSE "Negative"
            IN  /\ IF state.polarity # new_polarity /\ current_primitives # <<>>
                   THEN /\ IF state.polarity = "Positive"
                           THEN /\ positive_layers' = Append(positive_layers,
                                                             current_primitives)
                                /\ UNCHANGED negative_layers
                           ELSE /\ negative_layers' = Append(negative_layers,
                                                             current_primitives)
                                /\ UNCHANGED positive_layers
                        /\ current_primitives' = <<>>
                   ELSE UNCHANGED <<current_primitives, positive_layers, negative_layers>>
                /\ state' = [state EXCEPT !.polarity = new_polarity]
    /\ UNCHANGED <<apertures, region_contours, parse_result, emitted>>

(***************************************************************************)
(* %IF (parser/state.rs parse_if): writes the same polarity field          *)
(***************************************************************************)
parse_if(polarity_str) ==
    /\ ~parse_result.done
    /\ i' = i + 1
    /\ last' = Last("IF", 0, 0)
    /\ IF polarity_str = "POS" THEN state' = [state EXCEPT !.polarity = "Positive"]
       ELSE IF polarity_str = "NEG" THEN state' = [state EXCEPT !.polarity = "Negative"]
       ELSE UNCHANGED state
    /\ UNCHANGED <<apertures, current_primitives, positive_layers, negative_layers,
                   region_contours, parse_result, emitted>>

(***************************************************************************)
(* %SR (parser/state.rs parse_sr): no parameter resets to (1, 1, 0, 0);    *)
(* otherwise each of X, Y, I, J that is present and parses is stored.      *)
(***************************************************************************)
parse_sr(empty, X, Y, I, J) ==
    /\ ~parse_result.done
    /\ i' = i + 1
    /\ last' = Last("SR", 0, 0)
    /\ IF empty
       THEN state' = [state EXCEPT !.sr_x = 1, !.sr_y = 1, !.sr_i = 0, !.sr_j = 0]
       ELSE state' = [state EXCEPT !.sr_x = IF X.some THEN X.v ELSE @,
                                   !.sr_y = IF Y.some THEN Y.v ELSE @,
                                   !.sr_i = IF I.some THEN I.v ELSE @,
                                   !.sr_j = IF J.some THEN J.v ELSE @]
    /\ UNCHANGED <<apertures, current_primitives, positive_layers, negative_layers,
                   region_contours, parse_result, emitted>>

(***************************************************************************)
(* %LS (parser/state.rs parse_ls)                                          *)
(***************************************************************************)
parse_ls(scale) ==
    /\ ~parse_result.done
    /\ i' = i + 1
    /\ last' = Last("LS", 0, 0)
    /\ state' = [state EXCEPT !.layer_scale = scale]
    /\ UNCHANGED <<apertures, current_primitives, positive_layers, negative_layers,
                   region_contours, parse_result, emitted>>

(***************************************************************************)
(* Graphic commands (parser/geometry.rs parse_graphic_command).  g, xv, yv *)
(* and d are the optional G-code, X, Y and D-code of the line.             *)
(***************************************************************************)
\* step 1: the G-code changes the modal state; G37 closes the region
AfterGCode(st, g) ==
    IF ~g.some THEN st
    ELSE IF g.v = 1 THEN [st EXCEPT !.interpolation_mode = "linear", !.scale = 1]
    ELSE IF g.v = 36 THEN [st EXCEPT !.region_mode = TRUE]
    ELSE IF g.v = 37 THEN [st EXCEPT !.region_mode = FALSE]
    ELSE IF g.v = 90 THEN [st EXCEPT !.coordinate_mode = "absolute"]
    ELSE IF g.v = 91 THEN [st EXCEPT !.coordinate_mode = "incremental"]
    ELSE st

ContoursAfterGCode(contours, g) ==
    IF g.some /\ g.v = 36 THEN << <<>> >>
    ELSE IF g.some /\ g.v = 37 THEN <<>>
    ELSE contours

\* step 2: coordinate conversion of one axis
ConvertAxis(st, v, mirror, old) ==
    LET scaled == v.v * st.unit_multiplier * st.scale * st.layer_scale
        new == IF mirror THEN 0 - scaled ELSE scaled
    IN  IF ~v.some THEN old
        ELSE IF st.coordinate_mode = "absolute" THEN new ELSE old + new

\* step 3: what the D-code (or a bare coordinate with the pen down) draws
DrawsStroke(d, xv, yv, st) ==
    \/ d.some /\ d.v = 1
    \/ ~d.some /\ (xv.some \/ yv.some) /\ st.pen_state = "down"

\* C23 mutant: D02 opens a new contour whatever the last one holds
ContoursSplitAlways(contours, st, d, xv, yv, x, y) ==
    IF DrawsStroke(d, xv, yv, st)
    THEN IF st.region_mode /\ contours # <<>>
         THEN [contours EXCEPT ![Len(contours)] = Append(@, <<x, y>>)]
         ELSE contours
    ELSE IF d.some /\ d.v = 2
    THEN IF st.region_mode /\ contours # <<>> THEN Append(contours, <<>>) ELSE contours
    ELSE contours

ContoursAfterDCode(contours, st, d, xv, yv, x, y) ==
    IF DrawsStroke(d, xv, yv, st)
    THEN IF st.region_mode /\ contours # <<>>
         THEN [contours EXCEPT ![Len(contours)] = Append(@, <<x, y>>)]
         ELSE contours
    ELSE IF d.some /\ d.v = 2
    THEN IF st.region_mode /\ contours # <<>> /\ contours[Len(contours)] # <<>>
         THEN Append(contours, <<>>)
         ELSE contours
    ELSE contours

PrimitivesOfDCode(st, aps, d, xv, yv, x, y) ==
    IF DrawsStroke(d, xv, yv, st)
    THEN IF st.region_mode THEN <<>> ELSE execute_interpolation(st, aps, x, y)
    ELSE IF d.some /\ d.v = 3
    THEN IF st.region_mode THEN <<>> ELSE flash_aperture(st, aps, x, y)
    ELSE <<>>

StateAfterDCode(st, d, x, y) ==
    LET st1 == IF d.some /\ d.v = 1 THEN [st EXCEPT !.pen_state = "down"]
               ELSE IF d.some /\ d.v = 2 THEN [st EXCEPT !.pen_state = "up"]
               ELSE IF d.some /\ d.v >= 10 /\ d.v <= 9999
                    THEN [st EXCEPT !.current_aperture = ToString(d.v)]
               ELSE st
    IN  [st1 EXCEPT !.x = x, !.y = y, !.i = 0, !.j = 0]

parse_graphic_command(g, xv, yv, d) ==
    /\ ~parse_result.done
    /\ i' = i + 1
    /\ LET st1 == AfterGCode(state, g)
           region == IF g.some /\ g.v = 37
                     THEN RegionTriangles(state, region_contours) ELSE <<>>
           rc1 == ContoursAfterGCode(region_contours, g)
           x == ConvertAxis(st1, xv, st1.mirror_x, st1.x)
           y == ConvertAxis(st1, yv, st1.mirror_y, st1.y)
           drawn == PrimitivesOfDCode(st1, apertures, d, xv, yv, x, y)
           new == region \o drawn
       IN  /\ last' = Last(IF g.some /\ g.v = 37 THEN "G37"
                           ELSE IF g.some /\ g.v = 36 THEN "G36"
                           ELSE IF d.some /\ d.v = 3 THEN "D03"
                           ELSE IF d.some /\ d.v = 2 THEN "D02"
                           ELSE IF DrawsStroke(d, xv, yv, st1) THEN "D01"
                           ELSE "other", x, y)
           /\ current_primitives' = current_primitives \o Numbered(new)
           /\ emitted' = emitted \o [k \in 1..Len(new) |-> state.polarity]
           /\ region_contours' = ContoursAfterDCode(rc1, st1, d, xv, yv, x, y)
           /\ state' = StateAfterDCode(st1, d, x, y)
    /\ UNCHANGED <<apertures, positive_layers, negative_layers, parse_result>>

(***************************************************************************)
(* End of parse (parser.rs GerberParser::parse, after the line loop): the  *)
(* last list is flushed by the current polarity, then the two tables are   *)
(* interleaved, positive_layers[idx] before negative_layers[idx].          *)
(***************************************************************************)
Interleave(pos, neg) ==
    Concat([idx \in 1..Max(Len(pos), Len(neg)) |->
              (IF idx <= Len(pos) THEN <<pos[idx]>> ELSE <<>>)
              \o (IF idx <= Len(neg) THEN <<neg[idx]>> ELSE <<>>)])

\* C4 mutant: the end of input does not flush the accumulating list
FlushNothing(table, polarity) == table

\* C27 mutant: the end of input flushes the accumulating list even when empty
FlushEvenEmpty(table, polarity) ==
    IF state.polarity = polarity THEN Append(table, current_primitives) ELSE table

FlushLast(table, polarity) ==
    IF current_primitives # <<>> /\ state.polarity = polarity
    THEN Append(table, current_primitives)
    ELSE table

EndOfParse ==
    /\ ~parse_result.done
    /\ positive_layers' = FlushLast(positive_layers, "Positive")
    /\ negative_layers' = FlushLast(negative_layers, "Negative")
    /\ parse_result' = [done |-> TRUE,
                        layers |-> Interleave(positive_layers', negative_layers')]
    /\ last' = Last("end", 0, 0)
    /\ UNCHANGED <<state, apertures, current_primitives, region_contours, i, emitted>>

(***************************************************************************)
(* The renderer after Renderer::new and the evaluator before any call.     *)
(* Renderer::new creates the shared quad buffer, handle 1.                 *)
(***************************************************************************)
GlObject(h, kind) == [h |-> h, kind |-> kind]

NoCall == [op |-> "none", arg |-> 0, ok |-> TRUE, value |-> 0,
           pre_layers |-> <<>>, pre_count |-> 0]

InitRenderer ==
    /\ layers = <<>>
    /\ layer_count = 0
    /\ active_layer_ids = <<>>
    /\ layer_colors = 0
    /\ gl_objects = {GlObject(1, "buffer")}
    /\ gl_next = 2
    /\ draw_log = <<>>
    /\ call = NoCall
    /\ ops = 0

NoResult == [ok |-> TRUE, value |-> 0, err |-> "pending"]

IdleEval ==
    /\ expr = <<>>
    /\ eval_pc = "idle"
    /\ tokens = <<>>
    /\ eval_result = NoResult

\* no macro is being instantiated
IdleMacro ==
    /\ statements = <<>>
    /\ params = <<>>
    /\ variables = <<>>
    /\ macro_primitives = <<>>
    /\ stmt_idx = 0
    /\ pushed = <<>>

\* no sublayer is being converted
IdleData ==
    /\ sublayer_prims = <<>>
    /\ sublayer_data = [done |-> FALSE]

\* no features file is being parsed
IdleOdb ==
    /\ features = <<>>
    /\ feature_idx = 0
    /\ odb_primitives = <<>>
    /\ odb_pushed = <<>>

(***************************************************************************)
(* The parse loop of GerberParser::parse: one line per step, dispatched on *)
(* its first character; the input may end after any line.                  *)
(***************************************************************************)
MaxLines == 7

\* the lines of the polarity inputs:
\* D10*, X0Y0D03*, X5D01*, X0D01*, Y5D01*, G36*, G37*
PolarityLines ==
    { [g |-> None, x |-> None, y |-> None, d |-> Some(10)],
      [g |-> None, x |-> Some(0), y |-> Some(0), d |-> Some(3)],
      [g |-> None, x |-> Some(5), y |-> None, d |-> Some(1)],
      [g |-> None, x |-> Some(0), y |-> None, d |-> Some(1)],
      [g |-> None, x |-> None, y |-> Some(5), d |-> Some(1)],
      [g |-> Some(36), x |-> None, y |-> None, d |-> None],
      [g |-> Some(37), x |-> None, y |-> None, d |-> None] }

FreshTwin ==
    [polarity |-> "Positive", current_primitives |-> <<>>, positive_layers |-> <<>>,
     negative_layers |-> <<>>, done |-> FALSE, layers |-> <<>>]

IdleTwin == without_if = FreshTwin

IdleSession ==
    /\ macros = {}
    /\ parses = <<>>

IdleLoop ==
    /\ lines = <<>>
    /\ line_idx = 0
    /\ loop_pc = "done"
    /\ buffer = <<>>
    /\ executed = <<>>

Init == InitParser /\ InitRenderer /\ IdleEval /\ IdleMacro /\ IdleData /\ IdleOdb
    /\ IdleTwin /\ IdleSession /\ IdleLoop

Next ==
    \/ \E c \in {"D", "C"} : i < MaxLines /\ parse_lp(c)
                               /\ UNCHANGED non_parser_vars
    \/ \E s \in {"POS", "NEG"} : i < MaxLines /\ parse_if(s)
                               /\ UNCHANGED non_parser_vars
    \/ \E l \in PolarityLines : i < MaxLines /\ parse_graphic_command(l.g, l.x, l.y, l.d)
                               /\ UNCHANGED non_parser_vars
    \/ EndOfParse /\ UNCHANGED non_parser_vars

Spec == Init /\ [][Next]_vars

\* the same inputs without %IF: drawing commands and %LP only
NextLP ==
    \/ \E c \in {"D", "C"} : i < MaxLines /\ parse_lp(c)
                               /\ UNCHANGED non_parser_vars
    \/ \E l \in PolarityLines : i < MaxLines /\ parse_graphic_command(l.g, l.x, l.y, l.d)
                               /\ UNCHANGED non_parser_vars
    \/ EndOfParse /\ UNCHANGED non_parser_vars

SpecLP == Init /\ [][NextLP]_vars

(***************************************************************************)
(* Claims about the polarity segmentation                                  *)
(***************************************************************************)
\* the polarity a consumer infers for the sublayer at 0-based index k
PolarityOfIndex(k) == IF k % 2 = 0 THEN "Positive" ELSE "Negative"

\* C1: in the list returned by parse, the sublayer at every even index holds
\* only primitives emitted under positive polarity and the sublayer at every
\* odd index only primitives emitted under negative polarity.
C1_IndexParityIsPolarity ==
    parse_result.done =>
        \A k \in 1..Len(parse_result.layers) :
            \A n \in 1..Len(parse_result.layers[k]) :
                emitted[parse_result.layers[k][n].id] = PolarityOfIndex(k - 1)

\* C2: every primitive stored in a sublayer table is stored in the table of
\* the polarity that was current when it was produced, whatever %LP, %IF or
\* the end of input did afterwards.
C2_StoredUnderEmissionPolarity ==
    /\ \A k \in 1..Len(positive_layers) : \A n \in 1..Len(positive_layers[k]) :
           emitted[positive_layers[k][n].id] = "Positive"
    /\ \A k \in 1..Len(negative_layers) : \A n \in 1..Len(negative_layers[k]) :
           emitted[negative_layers[k][n].id] = "Negative"

\* every primitive of sublayer a was emitted before every primitive of b
AllBefore(a, b) == \A m \in 1..Len(a) : \A n \in 1..Len(b) : a[m].id < b[n].id

\* C3: the returned list preserves source order: a sublayer whose primitives
\* were all emitted before those of another comes first, and inside a
\* sublayer the primitives are in emission order.
C3_SourceOrderPreserved ==
    parse_result.done =>
        LET out == parse_result.layers
        IN  /\ \A a, b \in 1..Len(out) : AllBefore(out[a], out[b]) => a < b
            /\ \A k \in 1..Len(out) : \A m, n \in 1..Len(out[k]) :
                   m < n => out[k][m].id < out[k][n].id

\* C4: the sublayers returned by parse hold as many primitives as were
\* emitted, each emitted primitive exactly once.
C4_CountPreserved ==
    parse_result.done =>
        LET out == Concat(parse_result.layers)
        IN  /\ SumLens(parse_result.layers) = Len(emitted)
            /\ \A e \in 1..Len(emitted) : Cardinality({n \in 1..Len(out) : out[n].id = e}) = 1

\* C4 witness: a parse that flushed at a polarity change and at the end of
\* input, with strokes, flashes and a region among the primitives.
C4_Witness ==
    /\ parse_result.done
    /\ Len(positive_layers) >= 1
    /\ Len(negative_layers) >= 1
    /\ current_primitives # <<>>
    /\ Len(emitted) >= 6
    /\ \E n \in 1..Len(emitted) : Concat(parse_result.layers)[n].kind = "Triangle"

(***************************************************************************)
(* Flash inputs: %SR, %LS, aperture selection, D03, G36 / G37.  The        *)
(* extended-command dispatcher of the split parser is not part of the      *)
(* sources; %LS reaches parse_ls as the command table of the               *)
(* specification says.                                                     *)
(***************************************************************************)
MaxFlashLines == 5

DispatchLS(scale) == parse_ls(scale)

\* %SR* and %SR[X2][Y2]I5J5*
SrLines ==
    { [empty |-> TRUE, X |-> None, Y |-> None, I |-> None, J |-> None] }
    \cup { [empty |-> FALSE, X |-> X, Y |-> Y, I |-> Some(5), J |-> Some(5)] :
             X \in {None, Some(2)}, Y \in {None, Some(2)} }

\* D10* D11* D12* D13*, X0Y0D03*, X1Y0D03*, G36*, G37*
FlashLines ==
    { [g |-> None, x |-> None, y |-> None, d |-> Some(d)] : d \in 10..13 }
    \cup { [g |-> None, x |-> Some(x), y |-> Some(0), d |-> Some(3)] : x \in {0, 1} }
    \cup { [g |-> Some(g), x |-> None, y |-> None, d |-> None] : g \in {36, 37} }

NextFlash ==
    \/ \E l \in SrLines : i < MaxFlashLines /\ parse_sr(l.empty, l.X, l.Y, l.I, l.J)
                            /\ UNCHANGED non_parser_vars
    \/ \E scale \in {1, 2} : i < MaxFlashLines /\ DispatchLS(scale)
                            /\ UNCHANGED non_parser_vars
    \/ \E l \in FlashLines : i < MaxFlashLines /\ parse_graphic_command(l.g, l.x, l.y, l.d)
                            /\ UNCHANGED non_parser_vars
    \/ EndOfParse /\ UNCHANGED non_parser_vars

SpecFlash == Init /\ [][NextFlash]_vars

\* the primitives the last command appended
Appended == SubSeq(current_primitives, last.pre_len + 1, Len(current_primitives))

\* the last command was a D03 outside region mode with a defined aperture
\* that has no negative primitive
FlashCase ==
    /\ last.op = "D03"
    /\ ~last.region
    /\ state.current_aperture \in DOMAIN apertures
    /\ ~apertures[state.current_aperture].has_negative

TranslatedCopy(p, dx, dy) ==
    [p EXCEPT !.pts = [k \in DOMAIN @ |-> <<@[k][1] + dx, @[k][2] + dy>>],
              !.hole = <<@[1] + dx, @[2] + dy>>]

ScaledShape(p, s) ==
    IF p.kind = "Circle"
    THEN [p EXCEPT !.radius = s * @, !.hole_radius = s * @]
    ELSE [p EXCEPT !.pts = [k \in DOMAIN @ |-> <<s * @[k][1], s * @[k][2]>>],
                   !.hole_radius = s * @]

\* the flash appended n * sr_x * sr_y primitives, among them for every step
\* (sx, sy) and every aperture primitive its copy Shape(primitive) moved by
\* (x + sx * sr_i, y + sy * sr_j)
FlashAppended(Shape(_)) ==
    LET aperture == apertures[state.current_aperture]
        n == Len(aperture.primitives)
    IN  /\ Len(Appended) = n * state.sr_x * state.sr_y
        /\ \A sx \in 0..(state.sr_x - 1) : \A sy \in 0..(state.sr_y - 1) : \A k \in 1..n :
              \E m \in 1..Len(Appended) :
                  Geom(Appended[m]) = TranslatedCopy(Shape(aperture.primitives[k]),
                                                     last.x + sx * state.sr_i,
                                                     last.y + sy * state.sr_j)

Unscaled(p) == p
LayerScaled(p) == ScaledShape(p, state.layer_scale)

MaxRegionLines == 9
MaxContourPts == 3
MaxContours == 2
RegionExtent == 8

RegionPts == { <<0, 0>>, <<RegionExtent, 0>>, <<0, RegionExtent>>,
               <<2, 2>>, <<5, 2>>, <<2, 5>> }

NextRegion ==
    \/ i < MaxRegionLines
       /\ parse_graphic_command(Some(36), None, None, None)
       /\ UNCHANGED non_parser_vars
    \/ \E pt \in RegionPts :
          /\ i < MaxRegionLines
          /\ state.region_mode
          /\ Len(region_contours[Len(region_contours)]) < MaxContourPts
          /\ parse_graphic_command(None, Some(pt[1]), Some(pt[2]), Some(1))
          /\ UNCHANGED non_parser_vars
    \/ i < MaxRegionLines
       /\ Len(region_contours) < MaxContours
       /\ parse_graphic_command(None, None, None, Some(2))
       /\ UNCHANGED non_parser_vars
    \/ i < MaxRegionLines
       /\ parse_graphic_command(Some(37), None, None, None)
       /\ UNCHANGED non_parser_vars
    \/ EndOfParse /\ UNCHANGED non_parser_vars

SpecRegion == Init /\ [][NextRegion]_vars

\* the last command was a G37 closing a region of two 3-point contours, the
\* second one strictly inside the first
RegionWithHoleCase ==
    /\ last.op = "G37"
    /\ Len(last.contours) = 2
    /\ Len(last.contours[1]) = 3
    /\ Len(last.contours[2]) = 3
    /\ Cross(last.contours[2][1], last.contours[2][2], last.contours[2][3]) # 0
    /\ \A k \in 1..3 : StrictlyInTriangle(last.contours[2][k], last.contours[1])

\* C9: a region given as an outer contour and, after a D02, an inner contour
\* is filled with the inner contour as a hole: no emitted triangle covers a
\* point strictly inside the inner contour.
C9_InnerContourIsHole ==
    RegionWithHoleCase =>
        \A q \in (0..RegionExtent) \X (0..RegionExtent) :
            StrictlyInTriangle(q, last.contours[2]) =>
                \A m \in 1..Len(Appended) : ~InTriangle(q, Appended[m].pts)

(***************************************************************************)
(* Renderer (renderer.rs).  A WebGL object is its handle and its kind;     *)
(* gl_objects holds the objects created and not deleted.  The WebGL        *)
(* context is not lost and the canvas is present, so the create_* calls    *)
(* and get_canvas_size succeed.  The shader programs are left out.         *)
(*                                                                         *)
(* A sublayer of gerber_data is the set of primitive kinds it has data     *)
(* for, with its boundary.  A slot of the layer table is a record with     *)
(* live = FALSE for None.                                                  *)
(***************************************************************************)
MaxOps == 6
MaxLayerId == 2
Infinity == 1000000

KindOrder == <<"triangles", "circles", "arcs", "thermals">>
KindSet == {"triangles", "circles", "arcs", "thermals"}

\* WebGL objects a draw_instanced_* call creates when the sublayer has no
\* cached vertex array: the VAO and its buffers
ObjectsOfKind(kind) == IF kind \in {"triangles", "circles"} THEN 3 ELSE 6

Boundary(min_x, max_x, min_y, max_y) ==
    [min_x |-> min_x, max_x |-> max_x, min_y |-> min_y, max_y |-> max_y]

Sublayer(kinds, boundary) == [kinds |-> kinds, boundary |-> boundary]

\* the parsed inputs given to add_layer: an empty file, one positive
\* sublayer of triangles, a positive and a negative sublayer
GerberDatas ==
    { <<>>,
      <<Sublayer({"triangles"}, Boundary(0, 5, 0, 5))>>,
      <<Sublayer({"circles", "arcs"}, Boundary(-1, 6, -1, 1)),
        Sublayer({"thermals"}, Boundary(2, 3, 0, 1))>> }

ActiveLists == { <<>>, <<0>>, <<1>>, <<0, 1>>, <<1, 0>> }

NoFbo == [framebuffer |-> 0, texture |-> 0]
EmptyCache == [kind \in KindSet |-> <<>>]
EmptySlot == [live |-> FALSE, gerber_data |-> <<>>, fbo |-> NoFbo, buffer_caches |-> <<>>,
              boundary |-> Boundary(0, 0, 0, 0)]

\* create_fbo: a texture, then a framebuffer
create_fbo(next) == [framebuffer |-> next + 1, texture |-> next]
FboObjects(fbo) == {GlObject(fbo.texture, "texture"), GlObject(fbo.framebuffer, "framebuffer")}

RECURSIVE CombinedBoundary(_, _)
\* the min / max fold of add_layer, starting from (inf, -inf, inf, -inf)
CombinedBoundary(gerber_data, acc) ==
    IF gerber_data = <<>> THEN acc
    ELSE LET b == Head(gerber_data).boundary
         IN  CombinedBoundary(Tail(gerber_data),
                              Boundary(Min(acc.min_x, b.min_x), Max(acc.max_x, b.max_x),
                                       Min(acc.min_y, b.min_y), Max(acc.max_y, b.max_y)))

\* C8 mutant: only the range of the id is checked
RangeCheckOnly(ls, layer_id) == layer_id >= Len(ls)

\* the validity test of remove_layer and render (ids are 0-based)
InvalidLayerId(ls, layer_id) == layer_id >= Len(ls) \/ ~ls[layer_id + 1].live

\* C6 mutant: freed slots are never reused
NeverReuse(ls) == 0

\* layers.iter().position(|layer| layer.is_none()), 1-based; 0 when no slot is free
FirstFreeSlot(ls) ==
    IF \E k \in 1..Len(ls) : ~ls[k].live
    THEN CHOOSE k \in 1..Len(ls) : ~ls[k].live /\ \A j \in 1..(k - 1) : ls[j].live
    ELSE 0

Called(op, arg, ok, value) ==
    [op |-> op, arg |-> arg, ok |-> ok, value |-> value,
     pre_layers |-> layers, pre_count |-> layer_count]

add_layer(gerber_data) ==
    LET fbo == create_fbo(gl_next)
        layer_metadata == [live |-> TRUE, gerber_data |-> gerber_data, fbo |-> fbo,
                           buffer_caches |-> [k \in 1..Len(gerber_data) |-> EmptyCache],
                           boundary |-> CombinedBoundary(gerber_data,
                                           Boundary(Infinity, 0 - Infinity,
                                                    Infinity, 0 - Infinity))]
        free_slot == FirstFreeSlot(layers)
    IN  /\ gl_objects' = gl_objects \cup FboObjects(fbo)
        /\ gl_next' = gl_next + 2
        /\ IF free_slot # 0
           THEN /\ layers' = [layers EXCEPT ![free_slot] = layer_metadata]
                /\ call' = Called("add_layer", 0, TRUE, free_slot - 1)
           ELSE /\ layers' = Append(layers, layer_metadata)
                /\ call' = Called("add_layer", 0, TRUE, Len(layers))
        /\ layer_count' = layer_count + 1
        /\ ops' = ops + 1
        /\ UNCHANGED <<active_layer_ids, layer_colors, draw_log>>

\* C24 mutant: the slot is freed and the count kept
RemoveKeepsCount(layer_id) ==
    /\ IF InvalidLayerId(layers, layer_id)
       THEN /\ call' = Called("remove_layer", layer_id, FALSE, 0)
            /\ UNCHANGED layers
       ELSE /\ layers' = [layers EXCEPT ![layer_id + 1] = EmptySlot]
            /\ call' = Called("remove_layer", layer_id, TRUE, 0)
    /\ ops' = ops + 1
    /\ UNCHANGED <<layer_count, active_layer_ids, layer_colors, gl_objects, gl_next,
                   draw_log>>

remove_layer(layer_id) ==
    /\ IF InvalidLayerId(layers, layer_id)
       THEN /\ call' = Called("remove_layer", layer_id, FALSE, 0)
            /\ UNCHANGED <<layers, layer_count>>
       ELSE /\ layers' = [layers EXCEPT ![layer_id + 1] = EmptySlot]
            /\ layer_count' = layer_count - 1
            /\ call' = Called("remove_layer", layer_id, TRUE, 0)
    /\ ops' = ops + 1
    /\ UNCHANGED <<active_layer_ids, layer_colors, gl_objects, gl_next, draw_log>>

clear_all ==
    /\ layers' = <<>>
    /\ layer_count' = 0
    /\ call' = Called("clear_all", 0, TRUE, 0)
    /\ ops' = ops + 1
    /\ UNCHANGED <<active_layer_ids, layer_colors, gl_objects, gl_next, draw_log>>

RECURSIVE ResizeFrom(_, _, _)
\* resize: every live layer gets a new FBO, in table order
ResizeFrom(ls, k, next) ==
    IF k > Len(ls) THEN [layers |-> ls, next |-> next]
    ELSE IF ls[k].live
    THEN ResizeFrom([ls EXCEPT ![k].fbo = create_fbo(next)], k + 1, next + 2)
    ELSE ResizeFrom(ls, k + 1, next)

\* the WebGL objects the layer table refers to
CacheObjects(cache) ==
    UNION {{GlObject(cache[kind][n], IF n = 1 THEN "vao" ELSE "buffer") :
              n \in 1..Len(cache[kind])} : kind \in KindSet}

LayerObjects(ls) ==
    UNION {FboObjects(ls[k].fbo)
           \cup UNION {CacheObjects(ls[k].buffer_caches[c]) :
                         c \in 1..Len(ls[k].buffer_caches)} :
           k \in {j \in 1..Len(ls) : ls[j].live}}

resize ==
    LET res == ResizeFrom(layers, 1, gl_next)
    IN  /\ layers' = res.layers
        /\ gl_next' = res.next
        /\ gl_objects' = gl_objects \cup LayerObjects(res.layers)
        /\ call' = Called("resize", 0, TRUE, 0)
        /\ ops' = ops + 1
        /\ UNCHANGED <<layer_count, active_layer_ids, layer_colors, draw_log>>

set_active_layers(ids, color_data) ==
    /\ active_layer_ids' = ids
    /\ layer_colors' = color_data
    /\ call' = Called("set_active_layers", 0, TRUE, 0)
    /\ ops' = ops + 1
    /\ UNCHANGED <<layers, layer_count, gl_objects, gl_next, draw_log>>

\* color: the offset in layer_colors of the RGB triple of a composite draw
Drawn(op, layer, sublayer, kind) ==
    [op |-> op, layer |-> layer, sublayer |-> sublayer, kind |-> kind, color |-> 0]

\* C17 mutant: the sublayers of a layer are drawn last to first
JobsLastSublayerFirst(gerber_data) ==
    Concat([s \in 1..Len(gerber_data) |->
              LET t == Len(gerber_data) + 1 - s
                  HasData(kind) == kind \in gerber_data[t].kinds
                  kinds == SelectSeq(KindOrder, HasData)
              IN  [n \in 1..Len(kinds) |-> [sublayer |-> t - 1, kind |-> kinds[n]]]])

\* the draw_instanced_* calls of render_layer_geometry for one layer:
\* sublayers in order, in each the kinds that have data, in KindOrder
Jobs(gerber_data) ==
    Concat([s \in 1..Len(gerber_data) |->
              LET HasData(kind) == kind \in gerber_data[s].kinds
                  kinds == SelectSeq(KindOrder, HasData)
              IN  [n \in 1..Len(kinds) |-> [sublayer |-> s - 1, kind |-> kinds[n]]]])

RECURSIVE RunJobs(_, _, _)
\* each draw creates the vertex array and buffers of its kind unless cached
RunJobs(jobs, caches, next) ==
    IF jobs = <<>> THEN [caches |-> caches, next |-> next]
    ELSE LET job == Head(jobs)
             n == ObjectsOfKind(job.kind)
         IN  IF caches[job.sublayer + 1][job.kind] # <<>>
             THEN RunJobs(Tail(jobs), caches, next)
             ELSE RunJobs(Tail(jobs),
                          [caches EXCEPT ![job.sublayer + 1][job.kind] =
                                             [k \in 1..n |-> next + k - 1]],
                          next + n)

render_layer_geometry(ls, layer_id, next) ==
    IF InvalidLayerId(ls, layer_id)
    THEN [layers |-> ls, next |-> next, log |-> <<>>]
    ELSE LET jobs == Jobs(ls[layer_id + 1].gerber_data)
             res == RunJobs(jobs, ls[layer_id + 1].buffer_caches, next)
         IN  [layers |-> [ls EXCEPT ![layer_id + 1].buffer_caches = res.caches],
              next |-> res.next,
              log |-> [n \in 1..Len(jobs) |->
                         Drawn("draw", layer_id, jobs[n].sublayer, jobs[n].kind)]]

RECURSIVE RenderLayers(_, _, _, _)
\* step 1 of render: each active id is validated, then its FBO is cleared
\* and its geometry drawn; the first invalid id returns the error
RenderLayers(ids, ls, next, log) ==
    IF ids = <<>> THEN [ok |-> TRUE, layers |-> ls, next |-> next, log |-> log]
    ELSE IF InvalidLayerId(ls, Head(ids))
    THEN [ok |-> FALSE, layers |-> ls, next |-> next, log |-> log]
    ELSE LET res == render_layer_geometry(ls, Head(ids), next)
         IN  RenderLayers(Tail(ids), res.layers, res.next,
                          log \o <<Drawn("clear", Head(ids), 0, "fbo")>> \o res.log)

\* composite indexes the table with every active id
CompositePanics(ls, ids) == \E k \in 1..Len(ids) : ids[k] >= Len(ls)

\* the FBO textures composite draws onto the canvas
CompositeLog(ls, ids, colors) ==
    LET Shown(k) == ls[ids[k] + 1].live /\ (k - 1) * 3 + 2 < colors
        RECURSIVE From(_)
        From(k) == IF k > Len(ids) \/ ids[k] >= Len(ls) THEN <<>>
                   ELSE (IF Shown(k)
                         THEN <<[Drawn("composite", ids[k], 0, "texture")
                                   EXCEPT !.color = (k - 1) * 3]>>
                         ELSE <<>>) \o From(k + 1)
    IN  From(1)

render ==
    LET res == RenderLayers(active_layer_ids, layers, gl_next, <<>>)
    IN  /\ layers' = res.layers
        /\ gl_next' = res.next
        /\ gl_objects' = gl_objects \cup LayerObjects(res.layers)
        /\ IF res.ok
           THEN /\ draw_log' = res.log \o CompositeLog(res.layers, active_layer_ids,
                                                       layer_colors)
                /\ call' = Called("render", 0, TRUE, 0)
           ELSE /\ draw_log' = res.log
                /\ call' = Called("render", 0, FALSE, 0)
        /\ ops' = ops + 1
        /\ UNCHANGED <<layer_count, active_layer_ids, layer_colors>>

composite ==
    /\ draw_log' = CompositeLog(layers, active_layer_ids, layer_colors)
    /\ call' = Called("composite", 0, ~CompositePanics(layers, active_layer_ids), 0)
    /\ ops' = ops + 1
    /\ UNCHANGED <<layers, layer_count, active_layer_ids, layer_colors, gl_objects, gl_next>>

NextRender ==
    \/ \E gerber_data \in GerberDatas : ops < MaxOps /\ add_layer(gerber_data)
                                          /\ UNCHANGED non_renderer_vars
    \/ \E layer_id \in 0..MaxLayerId : ops < MaxOps /\ remove_layer(layer_id)
                                          /\ UNCHANGED non_renderer_vars
    \/ ops < MaxOps /\ clear_all /\ UNCHANGED non_renderer_vars
    \/ ops < MaxOps /\ resize /\ UNCHANGED non_renderer_vars
    \/ \E ids \in ActiveLists : ops < MaxOps /\ set_active_layers(ids, 3 * Len(ids))
                                          /\ UNCHANGED non_renderer_vars
    \/ ops < MaxOps /\ render /\ UNCHANGED non_renderer_vars
    \/ ops < MaxOps /\ composite /\ UNCHANGED non_renderer_vars

SpecRender == Init /\ [][NextRender]_vars

(***************************************************************************)
(* Claims about the layer table                                            *)
(***************************************************************************)
\* slot k (0-based) of table ls does not hold a live layer
NotLive(ls, k) == k >= Len(ls) \/ ~ls[k + 1].live

FreeIds(ls) == {k \in 0..(Len(ls) - 1) : ~ls[k + 1].live}

\* C6: add_layer stores the layer in the lowest free slot and returns its
\* index, or appends and returns the previous table length when no slot is
\* free; the returned id was not live and no other slot changes.
C6_LowestFreeSlotOrAppend ==
    call.op = "add_layer" =>
        LET pre == call.pre_layers
            id == call.value
        IN  /\ call.ok
            /\ NotLive(pre, id)
            /\ IF FreeIds(pre) # {}
               THEN id \in FreeIds(pre) /\ (\A k \in FreeIds(pre) : id <= k)
                    /\ Len(layers) = Len(pre)
               ELSE id = Len(pre) /\ Len(layers) = Len(pre) + 1
            /\ layers[id + 1].live
            /\ \A k \in 0..(Len(pre) - 1) : k # id => layers[k + 1] = pre[k + 1]
            /\ layer_count = call.pre_count + 1

\* C6 witness: an add_layer into a table with two free slots below a live one
C6_Witness ==
    /\ call.op = "add_layer"
    /\ Len(call.pre_layers) = 3
    /\ FreeIds(call.pre_layers) = {0, 1}
    /\ call.value = 0

\* C7: every WebGL object created and not deleted is the shared quad buffer
\* or is owned by a live layer (its framebuffer, its texture, its cached
\* vertex arrays and buffers).
C7_NoLeakedGlObject ==
    gl_objects \subseteq ({GlObject(1, "buffer")} \cup LayerObjects(layers))

\* position of the first active id that names no live layer, 0 when all do
FirstInvalid(ls, ids) ==
    IF \E k \in 1..Len(ids) : NotLive(ls, ids[k])
    THEN CHOOSE k \in 1..Len(ids) :
             NotLive(ls, ids[k]) /\ \A j \in 1..(k - 1) : ~NotLive(ls, ids[j])
    ELSE 0

RemoveInvalidFails ==
    (call.op = "remove_layer" /\ NotLive(call.pre_layers, call.arg)) =>
        /\ ~call.ok
        /\ layers = call.pre_layers
        /\ layer_count = call.pre_count

\* C8 as stated: remove_layer of an id out of range or already free returns
\* an error and changes neither the table nor layer_count; render with an
\* active id that names no live layer returns an error and has drawn nothing.
C8_InvalidIdIsErrorWithoutDrawing ==
    /\ RemoveInvalidFails
    /\ (call.op = "render" /\ FirstInvalid(call.pre_layers, active_layer_ids) # 0) =>
           ~call.ok /\ draw_log = <<>>

\* C8 amended: render returns the error without compositing to the canvas
\* and without drawing the invalid layer or any layer after it; the layers
\* listed before the first invalid id have been drawn into their FBOs.
C8_InvalidIdIsError ==
    /\ RemoveInvalidFails
    /\ (call.op = "render" /\ FirstInvalid(call.pre_layers, active_layer_ids) # 0) =>
           LET first == FirstInvalid(call.pre_layers, active_layer_ids)
               before == {active_layer_ids[k] : k \in 1..(first - 1)}
           IN  /\ ~call.ok
               /\ \A n \in 1..Len(draw_log) :
                      draw_log[n].op # "composite" /\ draw_log[n].layer \in before
               /\ \A id \in before : \E n \in 1..Len(draw_log) :
                      draw_log[n].op = "clear" /\ draw_log[n].layer = id
               /\ layer_count = call.pre_count
               /\ \A k \in 1..Len(layers) : layers[k].live = call.pre_layers[k].live

\* C8 witness: a render whose second active id was removed before, after the
\* first one was drawn
C8_Witness ==
    /\ call.op = "render"
    /\ ~call.ok
    /\ active_layer_ids = <<0, 1>>
    /\ Len(layers) >= 2
    /\ layers[1].live /\ ~layers[2].live
    /\ \E n \in 1..Len(draw_log) : draw_log[n].op = "draw"

(***************************************************************************)
(* Macro expression evaluator (parser/aperture_macro.rs).  An expression   *)
(* and a token are sequences of characters.  The inputs hold whole numbers *)
(* only and neither blanks, '.', '/' nor brackets; on whole numbers the    *)
(* f32 arithmetic and the to_string / parse round trip are exact.          *)
(***************************************************************************)
MaxExprLen == 5

ExprChars == {"$", "1", "2", "3", "5", "+", "-", "X"}

Digits == <<"0", "1", "2", "3", "4", "5", "6", "7", "8", "9">>
IsDigit(ch) == \E d \in 1..10 : Digits[d] = ch
DigitValue(ch) == (CHOOSE d \in 1..10 : Digits[d] = ch) - 1
IsNumChar(ch) == IsDigit(ch) \/ ch = "."

\* the variables of the test in parser.rs: $1 = 5, $2 = -2, $3 = 3
Variables == (<<"$", "1">> :> 5) @@ (<<"$", "2">> :> -2) @@ (<<"$", "3">> :> 3)

Ok(v) == [ok |-> TRUE, value |-> v, err |-> ""]
Err(msg) == [ok |-> FALSE, value |-> 0, err |-> msg]

\* expr.replace('X', "*")
ReplaceX(chars) == [k \in 1..Len(chars) |-> IF chars[k] = "X" THEN "*" ELSE chars[k]]

RECURSIVE DigitRun(_, _)
\* number of consecutive digits from pos on
DigitRun(chars, pos) ==
    IF pos <= Len(chars) /\ IsDigit(chars[pos]) THEN 1 + DigitRun(chars, pos + 1) ELSE 0

RECURSIVE NumCharRun(_, _)
\* number of consecutive digits or '.' from pos on
NumCharRun(chars, pos) ==
    IF pos <= Len(chars) /\ IsNumChar(chars[pos]) THEN 1 + NumCharRun(chars, pos + 1) ELSE 0

is_operator_or_bracket(token) == token \in {<<"+">>, <<"-">>, <<"*">>, <<"/">>, <<"(">>}

\* tokens.push(take(&mut current_token)) when the current token is not empty
PushCurrent(toks, current_token) ==
    IF current_token # <<>> THEN Append(toks, current_token) ELSE toks

RECURSIVE TokenizeFrom(_, _, _, _)
\* the character loop of tokenize, at character pos
TokenizeFrom(chars, pos, toks, current_token) ==
    IF pos > Len(chars) THEN [ok |-> TRUE, tokens |-> PushCurrent(toks, current_token)]
    ELSE LET ch == chars[pos]
         IN
         IF ch = " " THEN TokenizeFrom(chars, pos + 1, PushCurrent(toks, current_token), <<>>)
         ELSE IF ch \in {"-", "+"}
                 /\ (toks = <<>> \/ is_operator_or_bracket(toks[Len(toks)]))
         THEN LET signed == Append(current_token, ch)
              IN  IF pos = Len(chars)
                  THEN TokenizeFrom(chars, pos + 1, toks, signed)
                  ELSE IF chars[pos + 1] = "$"
                  THEN LET n == DigitRun(chars, pos + 2)
                       IN  TokenizeFrom(chars, pos + 2 + n,
                                        toks \o <<signed, SubSeq(chars, pos + 1, pos + 1 + n)>>,
                                        <<>>)
                  ELSE IF IsNumChar(chars[pos + 1])
                  THEN LET n == NumCharRun(chars, pos + 1)
                       IN  TokenizeFrom(chars, pos + 1 + n,
                                        Append(toks, signed \o SubSeq(chars, pos + 1, pos + n)),
                                        <<>>)
                  ELSE TokenizeFrom(chars, pos + 1, toks \o <<signed, <<ch>>>>, <<>>)
         ELSE IF ch = "$"
         THEN LET n == DigitRun(chars, pos + 1)
              IN  TokenizeFrom(chars, pos + 1 + n,
                               Append(PushCurrent(toks, current_token),
                                      SubSeq(chars, pos, pos + n)),
                               <<>>)
         ELSE IF IsNumChar(ch)
         THEN TokenizeFrom(chars, pos + 1, toks, Append(current_token, ch))
         ELSE IF ch \in {"+", "-", "*", "/", "(", ")"}
         THEN TokenizeFrom(chars, pos + 1,
                           Append(PushCurrent(toks, current_token), <<ch>>), <<>>)
         ELSE [ok |-> FALSE, tokens |-> <<>>]

tokenize(chars) == TokenizeFrom(chars, 1, <<>>, <<>>)

RECURSIVE DigitsValue(_)
DigitsValue(chars) ==
    IF chars = <<>> THEN 0
    ELSE 10 * DigitsValue(SubSeq(chars, 1, Len(chars) - 1)) + DigitValue(chars[Len(chars)])

\* str::parse::<f32> on a token without '.': an optional sign, then digits
ParseNumber(token) ==
    LET signed == token # <<>> /\ token[1] \in {"+", "-"}
        body == IF signed THEN Tail(token) ELSE token
    IN  IF body # <<>> /\ \A k \in 1..Len(body) : IsDigit(body[k])
        THEN Ok(IF signed /\ token[1] = "-" THEN 0 - DigitsValue(body) ELSE DigitsValue(body))
        ELSE Err("Invalid number")

\* f32::to_string of a whole number
RECURSIVE NatToChars(_)
NatToChars(n) ==
    IF n < 10 THEN <<Digits[n + 1]>> ELSE Append(NatToChars(n \div 10), Digits[(n % 10) + 1])

ValueToString(v) == IF v < 0 THEN <<"-">> \o NatToChars(0 - v) ELSE NatToChars(v)

token_to_value(token, vs) ==
    IF token # <<>> /\ token[1] = "$"
    THEN IF token \in DOMAIN vs THEN Ok(vs[token]) ELSE Err("Undefined variable")
    ELSE ParseNumber(token)

RECURSIVE MulDivFrom(_, _, _, _)
\* the loop of apply_multiplication_division at 0-based index idx.  The
\* quotient stands as \div: the inputs of this model divide by zero or
\* without remainder only.
MulDivFrom(toks, idx, result, vs) ==
    IF idx >= Len(toks) THEN [ok |-> TRUE, tokens |-> result, err |-> ""]
    ELSE IF idx + 2 < Len(toks) /\ toks[idx + 2] \in {<<"*">>, <<"/">>}
    THEN LET left == token_to_value(toks[idx + 1], vs)
             right == token_to_value(toks[idx + 3], vs)
         IN  IF ~left.ok THEN [ok |-> FALSE, tokens |-> <<>>, err |-> left.err]
             ELSE IF ~right.ok THEN [ok |-> FALSE, tokens |-> <<>>, err |-> right.err]
             ELSE IF toks[idx + 2] = <<"*">>
             THEN MulDivFrom(toks, idx + 3,
                             Append(result, ValueToString(left.value * right.value)), vs)
             ELSE IF right.value = 0
             THEN [ok |-> FALSE, tokens |-> <<>>, err |-> "Division by zero"]
             ELSE MulDivFrom(toks, idx + 3,
                             Append(result, ValueToString(left.value \div right.value)), vs)
    ELSE MulDivFrom(toks, idx + 1, Append(result, toks[idx + 1]), vs)

apply_multiplication_division(toks, vs) == MulDivFrom(toks, 0, <<>>, vs)

RECURSIVE AddSubFrom(_, _, _, _)
\* the loop of apply_addition_subtraction at 0-based index idx
AddSubFrom(toks, idx, result, vs) ==
    IF idx >= Len(toks) \/ ~(idx + 1 < Len(toks)) THEN Ok(result)
    ELSE LET op == toks[idx + 1]
             right == token_to_value(toks[idx + 2], vs)
         IN  IF ~right.ok THEN right
             ELSE IF op = <<"+">> THEN AddSubFrom(toks, idx + 2, result + right.value, vs)
             ELSE IF op = <<"-">> THEN AddSubFrom(toks, idx + 2, result - right.value, vs)
             ELSE Err("Unexpected operator")

apply_addition_subtraction(toks, vs) ==
    IF toks = <<>> THEN Err("No tokens to process")
    ELSE IF toks[1] \in {<<"-">>, <<"+">>}
    THEN IF Len(toks) < 2 THEN Err("Operator without operand")
         ELSE LET first == token_to_value(toks[2], vs)
              IN  IF ~first.ok THEN first
                  ELSE AddSubFrom(toks, 2,
                                  (IF toks[1] = <<"-">> THEN -1 ELSE 1) * first.value, vs)
    ELSE LET first == token_to_value(toks[1], vs)
         IN  IF ~first.ok THEN first ELSE AddSubFrom(toks, 1, first.value, vs)

(***************************************************************************)
(* evaluate_expression, one step per pass of calculate_simple_expression   *)
(***************************************************************************)
\* sequences over S of length at most n
SeqsUpTo(S, n) == UNION {[1..m -> S] : m \in 0..n}

InitEval ==
    /\ expr \in SeqsUpTo(ExprChars, MaxExprLen)
    /\ eval_pc = "tokenize"
    /\ tokens = <<>>
    /\ eval_result = NoResult

\* evaluate_expression up to the end of tokenize
Tokenize ==
    /\ eval_pc = "tokenize"
    /\ IF expr = <<>>
       THEN /\ eval_result' = Err("Empty expression")
            /\ eval_pc' = "done"
            /\ UNCHANGED tokens
       ELSE LET res == tokenize(ReplaceX(expr))
            IN  IF ~res.ok
                THEN /\ eval_result' = Err("Invalid character")
                     /\ eval_pc' = "done"
                     /\ UNCHANGED tokens
                ELSE IF res.tokens = <<>>
                THEN /\ eval_result' = Err("No tokens")
                     /\ eval_pc' = "done"
                     /\ UNCHANGED tokens
                ELSE /\ tokens' = res.tokens
                     /\ eval_pc' = "muldiv"
                     /\ UNCHANGED eval_result
    /\ UNCHANGED expr

MulDiv ==
    /\ eval_pc = "muldiv"
    /\ LET res == apply_multiplication_division(tokens, Variables)
       IN  IF res.ok
           THEN /\ tokens' = res.tokens
                /\ eval_pc' = "addsub"
                /\ UNCHANGED eval_result
           ELSE /\ eval_result' = Err(res.err)
                /\ eval_pc' = "done"
                /\ UNCHANGED tokens
    /\ UNCHANGED expr

AddSub ==
    /\ eval_pc = "addsub"
    /\ eval_result' = apply_addition_subtraction(tokens, Variables)
    /\ eval_pc' = "done"
    /\ UNCHANGED <<expr, tokens>>

NextEval ==
    \/ Tokenize /\ UNCHANGED non_eval_vars
    \/ MulDiv /\ UNCHANGED non_eval_vars
    \/ AddSub /\ UNCHANGED non_eval_vars

InitEvaluate == InitParser /\ InitRenderer /\ InitEval /\ IdleMacro /\ IdleData /\ IdleOdb
    /\ IdleTwin /\ IdleSession /\ IdleLoop

SpecEval == InitEvaluate /\ [][NextEval]_vars

(***************************************************************************)
(* Claim about sums: the arithmetic value of                               *)
(*     [sign] operand { (+|-) operand }                                    *)
(* where an operand is a defined $n variable or a string of digits.        *)
(***************************************************************************)
\* the operand starting at pos: its value and the position after it
OperandAt(chars, pos) ==
    IF pos > Len(chars) THEN [ok |-> FALSE, v |-> 0, next |-> pos]
    ELSE IF chars[pos] = "$"
    THEN LET n == DigitRun(chars, pos + 1)
             name == SubSeq(chars, pos, pos + n)
         IN  IF name \in DOMAIN Variables
             THEN [ok |-> TRUE, v |-> Variables[name], next |-> pos + n + 1]
             ELSE [ok |-> FALSE, v |-> 0, next |-> pos]
    ELSE LET n == DigitRun(chars, pos)
         IN  IF n > 0
             THEN [ok |-> TRUE, v |-> DigitsValue(SubSeq(chars, pos, pos + n - 1)),
                   next |-> pos + n]
             ELSE [ok |-> FALSE, v |-> 0, next |-> pos]

RECURSIVE SumFrom(_, _, _)
\* acc (+|-) operand ... from pos on
SumFrom(chars, pos, acc) ==
    IF pos > Len(chars) THEN [ok |-> TRUE, v |-> acc]
    ELSE IF chars[pos] \notin {"+", "-"} THEN [ok |-> FALSE, v |-> 0]
    ELSE LET operand == OperandAt(chars, pos + 1)
         IN  IF ~operand.ok THEN [ok |-> FALSE, v |-> 0]
             ELSE SumFrom(chars, operand.next,
                          IF chars[pos] = "+" THEN acc + operand.v ELSE acc - operand.v)

\* ok: chars is a sum of the grammar above; v: its arithmetic value
SumValue(chars) ==
    LET signed == chars # <<>> /\ chars[1] \in {"+", "-"}
        first == OperandAt(chars, IF signed THEN 2 ELSE 1)
    IN  IF ~first.ok THEN [ok |-> FALSE, v |-> 0]
        ELSE SumFrom(chars, first.next,
                     IF signed /\ chars[1] = "-" THEN 0 - first.v ELSE first.v)

\* C10: for every expression of operands ($n variables or literals) joined
\* by + and - with an optional leading sign, evaluate_expression returns its
\* arithmetic value, whether the first operand is a variable or a literal.
C10_SumEvaluatesToItsValue ==
    (eval_pc = "done" /\ SumValue(expr).ok) =>
        eval_result.ok /\ eval_result.value = SumValue(expr).v

(***************************************************************************)
(* Macro instantiation (parser/aperture_macro.rs).  A statement is the     *)
(* list of its comma-separated parts, each a sequence of characters; an    *)
(* assignment $n=expr is one part.  The inputs use the primitive codes 1   *)
(* (circle), 21 (centre line, no rotation) and the unknown code 9, and     *)
(* even diameters, widths and heights.                                     *)
(***************************************************************************)
\* calculate_simple_expression behind evaluate_expression
evaluate_expression(chars, vs) ==
    IF chars = <<>> THEN Err("Empty expression")
    ELSE LET toks == tokenize(ReplaceX(chars))
         IN  IF ~toks.ok THEN Err("Invalid character")
             ELSE IF toks.tokens = <<>> THEN Err("No tokens")
             ELSE LET folded == apply_multiplication_division(toks.tokens, vs)
                  IN  IF ~folded.ok THEN Err(folded.err)
                      ELSE apply_addition_subtraction(folded.tokens, vs)

\* C11 mutant: an expression that fails to evaluate counts as 0
EvaluateOrZero(parts, vs) ==
    LET value(k) == LET r == evaluate_expression(parts[k], vs)
                    IN  IF r.ok THEN r.value ELSE 0
    IN  IF Len(parts) >= 5 /\ parts[1] = <<"1">>
        THEN <<Circle(value(4), value(5), value(3) \div 2, value(2))>>
        ELSE <<>>

\* parse_primitive_statement: the primitives the statement pushes; every
\* parameter is evaluated before anything is pushed, and the first failure
\* (.ok()?) leaves the statement without effect
parse_primitive_statement(parts, vs) ==
    LET code == ParseNumber(parts[1])
        value(k) == evaluate_expression(parts[k], vs)
        AllOk(n) == \A k \in 2..n : value(k).ok
    IN  IF ~code.ok THEN <<>>
        ELSE IF code.value = 1
        THEN IF Len(parts) < 5 \/ ~AllOk(5) THEN <<>>
             ELSE <<Circle(value(4).value, value(5).value, value(3).value \div 2,
                           value(2).value)>>
        ELSE IF code.value = 21
        THEN IF Len(parts) < 6 \/ ~AllOk(6) THEN <<>>
             ELSE LET exposure == value(2).value
                      half_width == value(3).value \div 2
                      half_height == value(4).value \div 2
                      center_x == value(5).value
                      center_y == value(6).value
                      v1 == <<center_x - half_width, center_y - half_height>>
                      v2 == <<center_x + half_width, center_y - half_height>>
                      v3 == <<center_x + half_width, center_y + half_height>>
                      v4 == <<center_x - half_width, center_y + half_height>>
                  IN  <<Triangle(<<v1, v2, v3>>, exposure), Triangle(<<v1, v3, v4>>, exposure)>>
        ELSE <<>>

\* position of the first '=' of a part, 0 when there is none
FindEq(part) ==
    IF \E k \in 1..Len(part) : part[k] = "="
    THEN CHOOSE k \in 1..Len(part) : part[k] = "=" /\ \A m \in 1..(k - 1) : part[m] # "="
    ELSE 0

\* one iteration of the statement loop of instantiate
InstantiateStatement ==
    /\ stmt_idx < Len(statements)
    /\ LET stmt == statements[stmt_idx + 1]
           first == stmt[1]
           eq_idx == FindEq(first)
       IN  IF first = <<"0">>
           THEN /\ UNCHANGED <<variables, macro_primitives>>
                /\ pushed' = Append(pushed, <<>>)
           ELSE IF first[1] = "$" /\ eq_idx > 0
           THEN LET var_name == SubSeq(first, 1, eq_idx - 1)
                    value == evaluate_expression(SubSeq(first, eq_idx + 1, Len(first)),
                                                 variables)
                IN  /\ variables' = IF value.ok
                                    THEN [n \in DOMAIN variables \cup {var_name} |->
                                            IF n = var_name THEN value.value ELSE variables[n]]
                                    ELSE variables
                    /\ UNCHANGED macro_primitives
                    /\ pushed' = Append(pushed, <<>>)
           ELSE LET new == parse_primitive_statement(stmt, variables)
                IN  /\ macro_primitives' = macro_primitives \o new
                    /\ pushed' = Append(pushed, new)
                    /\ UNCHANGED variables
    /\ stmt_idx' = stmt_idx + 1
    /\ UNCHANGED <<statements, params>>

MaxStatements == 3

\* the expressions of the inputs: 2, 4/2, $1, 2/0, $1+2/0, $1/$2
MacroExprs ==
    { <<"2">>, <<"4", "/", "2">>, <<"$", "1">>, <<"2", "/", "0">>,
      <<"$", "1", "+", "2", "/", "0">>, <<"$", "1", "/", "$", "2">> }

\* $1 = 4, $2 = 0 or 2
MacroParams == {<<4, 0>>, <<4, 2>>}

\* 1,1,2,x,y   21,1,2,4/2,0,x   9,1,2,0,0   $3=$1/$2   1,1,2,$3,0   0
MacroStatements ==
    {<< <<"1">>, <<"1">>, <<"2">>, x, y >> : x \in MacroExprs, y \in {<<"0">>, <<"2", "/", "0">>}}
    \cup {<< <<"2", "1">>, <<"1">>, <<"2">>, <<"4", "/", "2">>, <<"0">>, x >> :
            x \in {<<"2">>, <<"2", "/", "0">>}}
    \cup {<< <<"9">>, <<"1">>, <<"2">>, <<"0">>, <<"0">> >>,
          << <<"$", "3", "=", "$", "1", "/", "$", "2">> >>,
          << <<"1">>, <<"1">>, <<"2">>, <<"$", "3">>, <<"0">> >>,
          << <<"0">> >>}

\* instantiate up to its loop: the parameters become $1, $2, ...
InitMacro ==
    /\ params \in MacroParams
    /\ statements \in SeqsUpTo(MacroStatements, MaxStatements)
    /\ variables = [n \in {<<"$", Digits[k + 1]>> : k \in 1..Len(params)} |->
                      params[DigitValue(n[2])]]
    /\ macro_primitives = <<>>
    /\ stmt_idx = 0
    /\ pushed = <<>>

NextMacro == InstantiateStatement /\ UNCHANGED non_macro_vars

InitInstantiate == InitParser /\ InitRenderer /\ IdleEval /\ InitMacro /\ IdleData /\ IdleOdb
    /\ IdleTwin /\ IdleSession /\ IdleLoop

SpecMacro == InitInstantiate /\ [][NextMacro]_vars

(***************************************************************************)
(* Claim about division by zero in a macro.  The arithmetic of the input   *)
(* expressions, written down by hand.                                      *)
(***************************************************************************)
DivByZero(text) ==
    \/ text \in {<<"2", "/", "0">>, <<"$", "1", "+", "2", "/", "0">>}
    \/ text = <<"$", "1", "/", "$", "2">> /\ params[2] = 0

ExprValue(text) ==
    IF text = <<"0">> THEN 0
    ELSE IF text = <<"1">> THEN 1
    ELSE IF text \in {<<"2">>, <<"4", "/", "2">>} THEN 2
    ELSE IF text = <<"$", "1">> THEN params[1]
    ELSE params[1] \div params[2]

IsPrimitiveStatement(stmt) == stmt[1] \in {<<"1">>, <<"2", "1">>}

\* a primitive statement with a parameter that divides by zero
DividesByZero(stmt) ==
    IsPrimitiveStatement(stmt) /\ \E k \in 2..Len(stmt) : DivByZero(stmt[k])

\* a primitive statement whose parameters all have a value
Plain(stmt) ==
    /\ IsPrimitiveStatement(stmt)
    /\ \A k \in 2..Len(stmt) : stmt[k] # <<"$", "3">> /\ ~DivByZero(stmt[k])

\* the primitives a plain statement stands for
Expected(stmt) ==
    LET v(k) == ExprValue(stmt[k])
    IN  IF stmt[1] = <<"1">>
        THEN <<Circle(v(4), v(5), v(3) \div 2, v(2))>>
        ELSE <<Triangle(<<<<v(5) - v(3) \div 2, v(6) - v(4) \div 2>>,
                          <<v(5) + v(3) \div 2, v(6) - v(4) \div 2>>,
                          <<v(5) + v(3) \div 2, v(6) + v(4) \div 2>>>>, v(2)),
               Triangle(<<<<v(5) - v(3) \div 2, v(6) - v(4) \div 2>>,
                          <<v(5) + v(3) \div 2, v(6) + v(4) \div 2>>,
                          <<v(5) - v(3) \div 2, v(6) + v(4) \div 2>>>>, v(2))>>

\* C11: a primitive statement with an expression that divides by zero pushes
\* no primitive, every other primitive statement of the macro, before or
\* after it, pushes its own primitives unchanged, and the result holds what
\* the statements pushed, in statement order.
C11_DivisionByZeroCancelsOneStatement ==
    /\ Len(pushed) = stmt_idx
    /\ macro_primitives = Concat(pushed)
    /\ \A k \in 1..stmt_idx :
         /\ DividesByZero(statements[k]) => pushed[k] = <<>>
         /\ Plain(statements[k]) => pushed[k] = Expected(statements[k])

\* a macro of three statements is done: the middle one divides by zero, the
\* ones around it are plain and their primitives are the result
C11_Witness ==
    /\ stmt_idx = 3
    /\ Len(statements) = 3
    /\ Plain(statements[1]) /\ DividesByZero(statements[2]) /\ Plain(statements[3])
    /\ macro_primitives = Expected(statements[1]) \o Expected(statements[3])

(***************************************************************************)
(* %SR as the dispatcher of parser.rs runs it.  parser.rs has a parse_sr   *)
(* of its own, which parse_command calls; it has no branch for an empty    *)
(* parameter list.                                                         *)
(***************************************************************************)
\* parse_sr of parser.rs: each of X, Y, I, J that is present and parses is
\* stored, the others stay
parse_sr_parser_rs(X, Y, I, J) ==
    /\ ~parse_result.done
    /\ i' = i + 1
    /\ last' = Last("SR", 0, 0)
    /\ state' = [state EXCEPT !.sr_x = IF X.some THEN X.v ELSE @,
                              !.sr_y = IF Y.some THEN Y.v ELSE @,
                              !.sr_i = IF I.some THEN I.v ELSE @,
                              !.sr_j = IF J.some THEN J.v ELSE @]
    /\ UNCHANGED <<apertures, current_primitives, positive_layers, negative_layers,
                   region_contours, parse_result, emitted>>

MaxSrLines == 4

\* %SR*, %SR[X2][Y2]I5J5* and %SRX1Y1I0J0*
ResetLines ==
    SrLines \cup {[empty |-> FALSE, X |-> Some(1), Y |-> Some(1), I |-> Some(0), J |-> Some(0)]}

NextSR ==
    \/ \E l \in ResetLines : i < MaxSrLines /\ parse_sr(l.empty, l.X, l.Y, l.I, l.J)
                               /\ UNCHANGED non_parser_vars
    \/ \E l \in ResetLines : i < MaxSrLines /\ parse_sr_parser_rs(l.X, l.Y, l.I, l.J)
                               /\ UNCHANGED non_parser_vars
    \/ \E l \in FlashLines : i < MaxSrLines /\ parse_graphic_command(l.g, l.x, l.y, l.d)
                               /\ UNCHANGED non_parser_vars
    \/ EndOfParse /\ UNCHANGED non_parser_vars

SpecSR == Init /\ [][NextSR]_vars

\* the step is %SR*% or %SRX1Y1I0J0*%, run by either parse_sr
ResetCommand ==
    \/ parse_sr(TRUE, None, None, None, None)
    \/ parse_sr(FALSE, Some(1), Some(1), Some(0), Some(0))
    \/ parse_sr_parser_rs(None, None, None, None)
    \/ parse_sr_parser_rs(Some(1), Some(1), Some(0), Some(0))

\* C12: from any parser state %SR*% and %SRX1Y1I0J0*% both leave
\* (sr_x, sr_y, sr_i, sr_j) = (1, 1, 0, 0) and every other field unchanged.
C12_EmptySrIsReset ==
    [][ResetCommand =>
         state' = [state EXCEPT !.sr_x = 1, !.sr_y = 1, !.sr_i = 0, !.sr_j = 0]]_vars

(***************************************************************************)
(* Sublayer conversion (parser.rs primitives_to_gerber_data).  TO_MM is a  *)
(* change of unit applied to every length alike; the model keeps the       *)
(* buffers in the unit of the primitives.  Thicknesses and diameters are   *)
(* even.  An Arc and a Thermal are records of their own.                   *)
(***************************************************************************)
Arc(x, y, radius, thickness) ==
    [kind |-> "Arc", pts |-> << <<x, y>> >>, radius |-> radius, thickness |-> thickness,
     exposure |-> 1, id |-> 0]

Thermal(x, y, outer_diameter) ==
    [kind |-> "Thermal", pts |-> << <<x, y>> >>, outer_diameter |-> outer_diameter,
     exposure |-> 1, id |-> 0]

\* C13 mutant: a buffer entry counts with its centre only
ExtentOfCentre(kind, e) ==
    [lo_x |-> e.x, hi_x |-> e.x, lo_y |-> e.y, hi_y |-> e.y]

\* what one entry of a buffer adds to the boundary
Extent(kind, e) ==
    LET r == IF kind = "triangles" THEN 0
             ELSE IF kind = "circles" THEN e.radius
             ELSE IF kind = "arcs" THEN e.radius + e.thickness \div 2
             ELSE e.outer_diameter \div 2
    IN  [lo_x |-> e.x - r, hi_x |-> e.x + r, lo_y |-> e.y - r, hi_y |-> e.y + r]

RECURSIVE MinOver(_, _, _)
\* acc.min(f[k]) over the entries of a sequence, in order
MinOver(vals, k, acc) ==
    IF k > Len(vals) THEN acc ELSE MinOver(vals, k + 1, Min(acc, vals[k]))

RECURSIVE MaxOver(_, _, _)
MaxOver(vals, k, acc) ==
    IF k > Len(vals) THEN acc ELSE MaxOver(vals, k + 1, Max(acc, vals[k]))

primitives_to_gerber_data(prims) ==
    LET OfKind(kind) == SelectSeq(prims, LAMBDA p : p.kind = kind)
        tri == OfKind("Triangle")
        cir == OfKind("Circle")
        arc == OfKind("Arc")
        the == OfKind("Thermal")
        triangles == Concat([k \in 1..Len(tri) |->
                               [v \in 1..3 |-> [x |-> tri[k].pts[v][1], y |-> tri[k].pts[v][2]]]])
        circles == [k \in 1..Len(cir) |->
                      [x |-> cir[k].pts[1][1], y |-> cir[k].pts[1][2], radius |-> cir[k].radius]]
        arcs == [k \in 1..Len(arc) |->
                   [x |-> arc[k].pts[1][1], y |-> arc[k].pts[1][2], radius |-> arc[k].radius,
                    thickness |-> arc[k].thickness]]
        thermals == [k \in 1..Len(the) |->
                       [x |-> the[k].pts[1][1], y |-> the[k].pts[1][2],
                        outer_diameter |-> the[k].outer_diameter]]
        extents == [k \in 1..Len(triangles) |-> Extent("triangles", triangles[k])]
                   \o [k \in 1..Len(circles) |-> Extent("circles", circles[k])]
                   \o [k \in 1..Len(arcs) |-> Extent("arcs", arcs[k])]
                   \o [k \in 1..Len(thermals) |-> Extent("thermals", thermals[k])]
        min_x == MinOver([k \in 1..Len(extents) |-> extents[k].lo_x], 1, Infinity)
        max_x == MaxOver([k \in 1..Len(extents) |-> extents[k].hi_x], 1, 0 - Infinity)
        min_y == MinOver([k \in 1..Len(extents) |-> extents[k].lo_y], 1, Infinity)
        max_y == MaxOver([k \in 1..Len(extents) |-> extents[k].hi_y], 1, 0 - Infinity)
    IN  [done |-> TRUE, triangles |-> triangles, circles |-> circles, arcs |-> arcs,
         thermals |-> thermals,
         boundary |-> IF min_x = Infinity THEN Boundary(0, 0, 0, 0)
                      ELSE Boundary(min_x, max_x, min_y, max_y)]

MaxSublayerPrims == 3

\* the primitives of the inputs, on both sides of the origin
SublayerPrims ==
    {Circle(c, 0 - c, 2, 1) : c \in {-3, 4}}
    \cup {Triangle(<<<<x, 0>>, <<x + 2, 1>>, <<x, 0 - 5>>>>, 1) : x \in {-6, 1}}
    \cup {Arc(0, y, 3, 2) : y \in {-7, 2}}
    \cup {Thermal(x, 1, 4) : x \in {-8, 8}}

InitData ==
    /\ sublayer_prims \in SeqsUpTo(SublayerPrims, MaxSublayerPrims)
    /\ sublayer_data = [done |-> FALSE]

\* GerberParser::parse converts each sublayer with primitives_to_gerber_data
ConvertSublayer ==
    /\ ~sublayer_data.done
    /\ sublayer_data' = primitives_to_gerber_data(sublayer_prims)
    /\ UNCHANGED sublayer_prims

NextData == ConvertSublayer /\ UNCHANGED non_data_vars

InitConvert == InitParser /\ InitRenderer /\ IdleEval /\ IdleMacro /\ InitData /\ IdleOdb
    /\ IdleTwin /\ IdleSession /\ IdleLoop

SpecData == InitConvert /\ [][NextData]_vars

\* the box b contains the square of half side r around (x, y)
Contains(b, x, y, r) ==
    b.min_x <= x - r /\ x + r <= b.max_x /\ b.min_y <= y - r /\ y + r <= b.max_y

\* C13: the boundary stored with a sublayer contains every triangle vertex,
\* centre +/- radius of every circle, centre +/- (radius + thickness/2) of
\* every arc and centre +/- outer_diameter/2 of every thermal of its buffers;
\* a sublayer with no geometry has the boundary (0, 0, 0, 0).
C13_BoundaryContainsGeometry ==
    sublayer_data.done =>
        LET d == sublayer_data
            b == d.boundary
        IN  /\ \A k \in 1..Len(d.triangles) : Contains(b, d.triangles[k].x, d.triangles[k].y, 0)
            /\ \A k \in 1..Len(d.circles) :
                 Contains(b, d.circles[k].x, d.circles[k].y, d.circles[k].radius)
            /\ \A k \in 1..Len(d.arcs) :
                 Contains(b, d.arcs[k].x, d.arcs[k].y,
                          d.arcs[k].radius + d.arcs[k].thickness \div 2)
            /\ \A k \in 1..Len(d.thermals) :
                 Contains(b, d.thermals[k].x, d.thermals[k].y,
                          d.thermals[k].outer_diameter \div 2)
            /\ (Len(d.triangles) + Len(d.circles) + Len(d.arcs) + Len(d.thermals) = 0
                  => b = Boundary(0, 0, 0, 0))

\* a converted sublayer with an arc, a thermal and a circle whose boundary
\* is fixed by their radii
C13_Witness ==
    /\ sublayer_data.done
    /\ Len(sublayer_data.arcs) = 1
    /\ Len(sublayer_data.thermals) = 1
    /\ Len(sublayer_data.circles) = 1
    /\ sublayer_data.boundary = Boundary(-10, 6, -11, 3)

(***************************************************************************)
(* %ADD (parser/aperture.rs parse_aperture).  A line is its code, its      *)
(* shape name and its first two parameters, None for a parameter that is   *)
(* missing or does not parse.  RING is the one macro defined.              *)
(***************************************************************************)
parse_aperture(code, shape, p1, p2) ==
    /\ ~parse_result.done
    /\ i' = i + 1
    /\ last' = Last("AD", 0, 0)
    /\ LET aperture ==
               IF shape = "C"
               THEN IF p1.some THEN ApertureC(p1.v) ELSE Aperture(0, <<>>, FALSE)
               ELSE IF shape = "R"
               THEN IF p1.some /\ p2.some THEN ApertureR(p1.v, p2.v)
                    ELSE Aperture(0, <<>>, FALSE)
               ELSE IF shape = "RING"
               THEN IF p1.some /\ p2.some THEN ApertureRing(p1.v, p2.v)
                    ELSE Aperture(0, <<>>, FALSE)
               ELSE Aperture(0, <<>>, FALSE)
       IN  apertures' = IF code = "" THEN apertures
                        ELSE [c \in DOMAIN apertures \cup {code} |->
                                IF c = code THEN aperture ELSE apertures[c]]
    /\ UNCHANGED <<state, current_primitives, positive_layers, negative_layers,
                   region_contours, parse_result, emitted>>

MaxAdLines == 4

\* %ADD10C,4*  %ADD14R,2X4*  %ADD12RING,4X2*  %ADDC,4*
GoodAdLines ==
    { [code |-> "10", shape |-> "C", p1 |-> Some(4), p2 |-> None],
      [code |-> "14", shape |-> "R", p1 |-> Some(2), p2 |-> Some(4)],
      [code |-> "12", shape |-> "RING", p1 |-> Some(4), p2 |-> Some(2)] }

\* %ADD10C,abc*  %ADD11R,2*  %ADD10Q,2*  %ADD11NOMACRO,2X2*
BadAdLines ==
    { [code |-> "10", shape |-> "C", p1 |-> None, p2 |-> None],
      [code |-> "11", shape |-> "R", p1 |-> Some(2), p2 |-> None],
      [code |-> "10", shape |-> "Q", p1 |-> Some(2), p2 |-> None],
      [code |-> "11", shape |-> "NOMACRO", p1 |-> Some(2), p2 |-> Some(2)] }

NextAD ==
    \/ \E l \in GoodAdLines \cup BadAdLines :
         i < MaxAdLines /\ parse_aperture(l.code, l.shape, l.p1, l.p2)
                        /\ UNCHANGED non_parser_vars
    \/ i < MaxAdLines /\ parse_aperture("", "C", Some(4), None) /\ UNCHANGED non_parser_vars
    \/ \E l \in FlashLines : i < MaxAdLines /\ parse_graphic_command(l.g, l.x, l.y, l.d)
                               /\ UNCHANGED non_parser_vars
    \/ EndOfParse /\ UNCHANGED non_parser_vars

SpecAD == Init /\ [][NextAD]_vars

\* C14: an %ADD that cannot be processed leaves the aperture table as it
\* was, so the aperture defined earlier under its code is the one later
\* flashes use; the parse goes on with the next command.
C14_BadApertureIsSkipped ==
    [][(\E l \in BadAdLines : parse_aperture(l.code, l.shape, l.p1, l.p2))
         => apertures' = apertures]_vars

(***************************************************************************)
(* %AB (parser.rs parse_command).  The branch for %AB is empty: the line   *)
(* is consumed and nothing else happens.                                   *)
(***************************************************************************)
\* %ABDn*% (open) and %AB*% (close)
parse_ab(open, code) ==
    /\ ~parse_result.done
    /\ i' = i + 1
    /\ last' = [Last("AB", 0, 0) EXCEPT !.block = IF open THEN code ELSE ""]
    /\ UNCHANGED <<state, apertures, current_primitives, positive_layers, negative_layers,
                   region_contours, parse_result, emitted>>

MaxAbLines == 4

NextAB ==
    \/ i < MaxAbLines /\ parse_ab(TRUE, "20") /\ UNCHANGED non_parser_vars
    \/ i < MaxAbLines /\ parse_ab(FALSE, "") /\ UNCHANGED non_parser_vars
    \/ \E l \in FlashLines : i < MaxAbLines /\ parse_graphic_command(l.g, l.x, l.y, l.d)
                               /\ UNCHANGED non_parser_vars
    \/ EndOfParse /\ UNCHANGED non_parser_vars

SpecAB == Init /\ [][NextAB]_vars

\* C15: a command between %ABDn*% and the closing %AB*% emits no primitive
\* into the current sublayer and leaves the outer parser state (position,
\* current aperture, modes, polarity) as it was; after the closing %AB*% the
\* aperture table holds an aperture under code n.
C15_BlockIsBuffered ==
    [][/\ (last.block # "" /\ i' = i + 1 /\ last'.op # "AB")
            => current_primitives' = current_primitives /\ state' = state
       /\ (last.block # "" /\ i' = i + 1 /\ last'.op = "AB" /\ last'.block = "")
            => last.block \in DOMAIN apertures']_vars

(***************************************************************************)
(* ODB++ features (parser_odb/features.rs).  A record is the list of its   *)
(* blank-separated parts; a part is its text and, when str::parse::<f32>   *)
(* accepts it, its value.  Pads use round and square symbols, lines run    *)
(* along the axes, sizes are even.                                         *)
(***************************************************************************)
Num(v) == [text |-> ToString(v), f32 |-> Some(v)]
Word(text) == [text |-> text, f32 |-> None]

\* the symbol table of the inputs: $0 r2, $1 s2
Symbols == [id \in {"$0", "$1"} |-> IF id = "$0" THEN [shape |-> "Round", size |-> 2]
                                    ELSE [shape |-> "Square", size |-> 2]]

\* let exposure = if polarity_str == "0" || polarity_str == "1" { 1.0 } else { 0.0 }
Exposure(polarity_str) == IF polarity_str = "0" \/ polarity_str = "1" THEN 1 ELSE 0

Parsed(parts, from, to) == \A k \in from..to : parts[k].f32.some

parse_pad(parts) ==
    IF Len(parts) < 8 \/ ~Parsed(parts, 2, 6) \/ parts[7].text \notin DOMAIN Symbols THEN <<>>
    ELSE LET x == parts[2].f32.v
             y == parts[3].f32.v
             exposure == Exposure(parts[8].text)
             symbol == Symbols[parts[7].text]
             half == symbol.size \div 2
         IN  IF symbol.shape = "Round"
             THEN <<Circle(x, y, symbol.size \div 2, exposure)>>
             ELSE <<Triangle(<<<<x - half, y - half>>, <<x + half, y - half>>,
                              <<x + half, y + half>>>>, exposure)>>

parse_arc(parts) ==
    IF Len(parts) < 8 \/ ~Parsed(parts, 2, 7) THEN <<>>
    ELSE <<[Arc(parts[2].f32.v, parts[3].f32.v, parts[4].f32.v, parts[7].f32.v)
              EXCEPT !.exposure = Exposure(parts[8].text)]>>

\* the first triangle (v1, v2, v3) of the rectangle around the line
parse_line(parts) ==
    IF Len(parts) < 8 \/ ~Parsed(parts, 2, 6) \/ parts[7].text \notin DOMAIN Symbols THEN <<>>
    ELSE LET x1 == parts[2].f32.v
             y1 == parts[3].f32.v
             x2 == parts[4].f32.v
             y2 == parts[5].f32.v
             both == line_to_triangles(x1, y1, x2, y2, parts[6].f32.v,
                                       Exposure(parts[8].text))
         IN  IF both = <<>> THEN <<>> ELSE <<both[1]>>

RECURSIVE NumericPairs(_, _)
\* the number of coordinate pairs read from part k on
NumericPairs(parts, k) ==
    IF k + 1 <= Len(parts) /\ parts[k].f32.some /\ parts[k + 1].f32.some
    THEN 1 + NumericPairs(parts, k + 2) ELSE 0

parse_surface(parts) ==
    LET n == NumericPairs(parts, 2)
        vertices == [k \in 1..n |-> <<parts[2 * k].f32.v, parts[2 * k + 1].f32.v>>]
        after == 2 + 2 * n
        exposure == Exposure(IF after <= Len(parts) THEN parts[after].text ELSE "0")
    IN  IF Len(parts) < 7 \/ n < 3 THEN <<>>
        ELSE [j \in 1..(n - 2) |->
                Triangle(<<vertices[1], vertices[j + 1], vertices[j + 2]>>, exposure)]

\* one iteration of the line loop of parse_features
ParseFeature ==
    /\ feature_idx < Len(features)
    /\ LET parts == features[feature_idx + 1]
           feature_type == parts[1].text
           new == IF feature_type = "P" THEN parse_pad(parts)
                  ELSE IF feature_type = "L" THEN parse_line(parts)
                  ELSE IF feature_type = "A" THEN parse_arc(parts)
                  ELSE IF feature_type = "S" THEN parse_surface(parts)
                  ELSE <<>>
       IN  /\ odb_primitives' = odb_primitives \o new
           /\ odb_pushed' = Append(odb_pushed, new)
    /\ feature_idx' = feature_idx + 1
    /\ UNCHANGED features

MaxFeatures == 2

\* the polarity fields of the inputs
Polarities == {Num(0), Num(1), Num(2), Word("N")}

\* P 1 2 0 0 0 sym pol 0    L 0 0 4 0 2 sym pol 0    L 1 1 1 1 2 $0 pol 0
\* A 0 0 3 0 90 2 pol 0     S 0 0 4 0 0 4 pol a       X 0 0
FeatureRecords ==
    {<<Word("P"), Num(1), Num(2), Num(0), Num(0), Num(0), Word(sym), pol, Num(0)>> :
        sym \in {"$0", "$1", "$9"}, pol \in Polarities}
    \cup {<<Word("L"), Num(0), Num(0), Num(4), Num(0), Num(2), Word("$0"), pol, Num(0)>> :
            pol \in Polarities}
    \cup {<<Word("L"), Num(1), Num(1), Num(1), Num(1), Num(2), Word("$0"), pol, Num(0)>> :
            pol \in {Num(0)}}
    \cup {<<Word("A"), Num(0), Num(0), Num(3), Num(0), Num(90), Num(2), pol, Num(0)>> :
            pol \in Polarities}
    \cup {<<Word("S"), Num(0), Num(0), Num(4), Num(0), Num(0), Num(4), pol, Word("a")>> :
            pol \in Polarities}
    \cup {<<Word("X"), Num(0), Num(0)>>}

InitOdb ==
    /\ features \in SeqsUpTo(FeatureRecords, MaxFeatures)
    /\ feature_idx = 0
    /\ odb_primitives = <<>>
    /\ odb_pushed = <<>>

NextOdb == ParseFeature /\ UNCHANGED non_odb_vars

InitFeatures == InitParser /\ InitRenderer /\ IdleEval /\ IdleMacro /\ IdleData /\ InitOdb
    /\ IdleTwin /\ IdleSession /\ IdleLoop

SpecOdb == InitFeatures /\ [][NextOdb]_vars

\* the polarity field of a record: after the symbol of a pad or a line,
\* after the width of an arc, after the coordinates of a surface
PolarityField(parts) ==
    IF parts[1].text = "S" THEN parts[Len(parts) - 1].text ELSE parts[8].text

\* C16: the exposure of every primitive produced from a feature record
\* (P, L, A, S) is 1 exactly when the polarity field of the record is the
\* string "0", and 0 for every other polarity value.
C16_ExposureFromPolarity ==
    \A k \in 1..feature_idx :
        \A n \in 1..Len(odb_pushed[k]) :
            odb_pushed[k][n].exposure =
                (IF PolarityField(features[k]) = "0" THEN 1 ELSE 0)

(***************************************************************************)
(* Claim about the order of the draw calls of one render pass              *)
(***************************************************************************)
\* position of a layer id in the active list (the lists hold no id twice)
ActivePos(layer_id) ==
    CHOOSE k \in 1..Len(active_layer_ids) : active_layer_ids[k] = layer_id

KindPos(kind) == CHOOSE n \in 1..Len(KindOrder) : KindOrder[n] = kind

\* draw calls a and b of the framebuffer passes are in render order
InRenderOrder(a, b) ==
    \/ ActivePos(a.layer) < ActivePos(b.layer)
    \/ /\ a.layer = b.layer
       /\ \/ a.op = "clear" /\ b.op = "draw"
          \/ a.op = "draw" /\ b.op = "draw" /\ a.sublayer < b.sublayer
          \/ a.op = "draw" /\ b.op = "draw" /\ a.sublayer = b.sublayer
               /\ KindPos(a.kind) < KindPos(b.kind)

\* C17: in one render pass the layers are drawn into their framebuffers in
\* the order of the active id list, the sublayers of a layer in increasing
\* index and in a sublayer triangles, circles, arcs, thermals; every
\* framebuffer pass is over before compositing starts, and compositing draws
\* the layer textures in active-id order, the i-th with the i-th RGB triple.
C17_RenderOrder ==
    (call.op = "render" /\ call.ok) =>
        LET passes == SelectSeq(draw_log, LAMBDA e : e.op # "composite")
            comps == SelectSeq(draw_log, LAMBDA e : e.op = "composite")
        IN  /\ draw_log = passes \o comps
            /\ \A m, n \in 1..Len(passes) : m < n => InRenderOrder(passes[m], passes[n])
            /\ \A k \in 1..Len(active_layer_ids) :
                 LET gerber_data == layers[active_layer_ids[k] + 1].gerber_data
                 IN  /\ \E n \in 1..Len(passes) :
                            passes[n].op = "clear" /\ passes[n].layer = active_layer_ids[k]
                     /\ \A s \in 1..Len(gerber_data) : \A kind \in gerber_data[s].kinds :
                          \E n \in 1..Len(passes) :
                            /\ passes[n].op = "draw" /\ passes[n].kind = kind
                            /\ passes[n].layer = active_layer_ids[k]
                            /\ passes[n].sublayer = s - 1
            /\ Len(comps) = Len(active_layer_ids)
            /\ \A k \in 1..Len(comps) :
                 comps[k].layer = active_layer_ids[k] /\ comps[k].color = 3 * (k - 1)

\* a render of the active list <<1, 0>> in which layer 1 has two sublayers
\* and both layers were composited
C17_Witness ==
    /\ call.op = "render" /\ call.ok
    /\ active_layer_ids = <<1, 0>>
    /\ Len(layers[2].gerber_data) = 2
    /\ Len(layers[1].gerber_data) = 1
    /\ Len(SelectSeq(draw_log, LAMBDA e : e.op = "composite")) = 2

(***************************************************************************)
(* Claim about precedence: the arithmetic value of                         *)
(*     term { + term },   term = operand { X operand }                     *)
(* with multiplication before addition, each folded left to right.         *)
(***************************************************************************)
RECURSIVE ProductFrom(_, _, _)
\* acc X operand X ... from pos on
ProductFrom(chars, pos, acc) ==
    IF pos > Len(chars) \/ chars[pos] # "X" THEN [ok |-> TRUE, v |-> acc, next |-> pos]
    ELSE LET operand == OperandAt(chars, pos + 1)
         IN  IF ~operand.ok THEN [ok |-> FALSE, v |-> 0, next |-> pos]
             ELSE ProductFrom(chars, operand.next, acc * operand.v)

RECURSIVE TermsFrom(_, _, _)
\* acc + term + ... from pos on
TermsFrom(chars, pos, acc) ==
    IF pos > Len(chars) THEN [ok |-> TRUE, v |-> acc]
    ELSE IF chars[pos] # "+" THEN [ok |-> FALSE, v |-> 0]
    ELSE LET operand == OperandAt(chars, pos + 1)
             term == ProductFrom(chars, operand.next, operand.v)
         IN  IF ~operand.ok \/ ~term.ok THEN [ok |-> FALSE, v |-> 0]
             ELSE TermsFrom(chars, term.next, acc + term.v)

PrecedenceValue(chars) ==
    LET operand == OperandAt(chars, 1)
        term == ProductFrom(chars, operand.next, operand.v)
    IN  IF ~operand.ok \/ ~term.ok THEN [ok |-> FALSE, v |-> 0]
        ELSE TermsFrom(chars, term.next, term.v)

\* the expression multiplies, and each + of it comes right after a $n
\* variable (a + after a literal is the subject of C10)
MultiplicativeCase(chars) ==
    /\ \E k \in 1..Len(chars) : chars[k] = "X"
    /\ \A k \in 1..Len(chars) : chars[k] = "+" => k >= 3 /\ chars[k - 2] = "$"

\* C18: multiplication is folded left to right before addition: aXbXc
\* evaluates to (a*b)*c and a+bXc to a+(b*c).
C18_ProductsFoldBeforeSums ==
    (eval_pc = "done" /\ MultiplicativeCase(expr) /\ PrecedenceValue(expr).ok) =>
        eval_result.ok /\ eval_result.value = PrecedenceValue(expr).v

(***************************************************************************)
(* Boolean-operation inputs: macro apertures whose primitives come in      *)
(* different orders of exposure, selected by Dnn and flashed by D03.  A    *)
(* macro pushes its primitives in statement order                          *)
(* (parser/aperture_macro.rs), so "1,0,2,0,0*1,1,4,0,0*" gives the clear   *)
(* circle first.                                                           *)
(***************************************************************************)
MaxBoolLines == 4

\* D20: clear r1, dark r2          D21: dark r2, clear r1
\* D22: clear r1 alone             D23: clear r1, dark r2, dark r1 at (3, 0)
\* D24: dark r2, dark r1 at (3, 0), clear r1 at (3, 0)
BooleanApertures ==
    [code \in {"20", "21", "22", "23", "24"} |->
        Aperture(0,
                 IF code = "20" THEN <<Circle(0, 0, 1, 0), Circle(0, 0, 2, 1)>>
                 ELSE IF code = "21" THEN <<Circle(0, 0, 2, 1), Circle(0, 0, 1, 0)>>
                 ELSE IF code = "22" THEN <<Circle(0, 0, 1, 0)>>
                 ELSE IF code = "23"
                      THEN <<Circle(0, 0, 1, 0), Circle(0, 0, 2, 1), Circle(3, 0, 1, 1)>>
                 ELSE <<Circle(0, 0, 2, 1), Circle(3, 0, 1, 1), Circle(3, 0, 1, 0)>>,
                 TRUE)]

\* D20* .. D24*, X0Y0D03*, X1Y0D03*
BooleanLines ==
    { [g |-> None, x |-> None, y |-> None, d |-> Some(d)] : d \in 20..24 }
    \cup { [g |-> None, x |-> Some(x), y |-> Some(0), d |-> Some(3)] : x \in {0, 1} }

InitBooleanParser ==
    /\ state = DefaultState
    /\ apertures = BooleanApertures
    /\ current_primitives = <<>>
    /\ positive_layers = <<>>
    /\ negative_layers = <<>>
    /\ region_contours = <<>>
    /\ i = 0
    /\ parse_result = [done |-> FALSE, layers |-> <<>>]
    /\ emitted = <<>>
    /\ last = NoLast

InitBoolean == InitBooleanParser /\ InitRenderer /\ IdleEval /\ IdleMacro /\ IdleData /\ IdleOdb
    /\ IdleTwin /\ IdleSession /\ IdleLoop

NextBoolean ==
    \E l \in BooleanLines : i < MaxBoolLines /\ parse_graphic_command(l.g, l.x, l.y, l.d)
                              /\ UNCHANGED non_parser_vars

SpecBoolean == InitBoolean /\ [][NextBoolean]_vars

\* the last command was a D03 of a defined aperture with a negative primitive
BooleanCase ==
    /\ last.op = "D03"
    /\ ~last.region
    /\ state.current_aperture \in DOMAIN apertures
    /\ apertures[state.current_aperture].has_negative

\* the shapes of the flashed aperture at the flash point, in list order
FlashedShapes ==
    LET aperture == apertures[state.current_aperture]
    IN  [k \in 1..Len(aperture.primitives) |->
           LET offset_p == offset_primitive_by(aperture.primitives[k], last.x, last.y)
           IN  [poly |-> primitive_to_polygon(offset_p), exposure |-> offset_p.exposure]]

RECURSIVE FoldAfter(_, _, _)
\* union / difference of the shapes from position k on, in list order
FoldAfter(shapes, k, acc) ==
    IF k > Len(shapes) THEN acc
    ELSE FoldAfter(shapes, k + 1,
                   IF shapes[k].exposure = 1 THEN acc \cup shapes[k].poly
                   ELSE acc \ shapes[k].poly)

\* the area that starts as the first positive shape and has only the later
\* shapes applied; empty when no shape is positive
AreaFromFirstPositive(shapes) ==
    LET first_idx == FirstPositive(shapes, 1)
    IN  IF first_idx = 0 THEN {}
        ELSE FoldAfter(shapes, first_idx + 1, shapes[first_idx].poly)

\* the area the appended primitives cover
AppendedArea == UNION {primitive_to_polygon(Appended[k]) : k \in 1..Len(Appended)}

\* C19: the boolean pipeline starts from the first positive shape and applies
\* only the shapes after it, union if positive and difference if negative, in
\* list order; negative shapes before the first positive one have no effect,
\* and a list with no positive shape yields no primitives.
C19_OnlyLaterShapesApplied ==
    BooleanCase =>
        /\ AppendedArea = AreaFromFirstPositive(FlashedShapes)
        /\ FirstPositive(FlashedShapes, 1) = 0 => Appended = <<>>

(***************************************************************************)
(* Stroke inputs: %SR, aperture selection and D01 strokes along the axes.  *)
(* A stroke to the point the parser is already at has length 0.            *)
(***************************************************************************)
MaxStrokeLines == 4

\* D10* .. D13*, X5D01*, X0D01*, Y5D01*, X0Y0D01*
StrokeLines ==
    { [g |-> None, x |-> None, y |-> None, d |-> Some(d)] : d \in 10..13 }
    \cup { [g |-> None, x |-> Some(x), y |-> None, d |-> Some(1)] : x \in {0, 5} }
    \cup { [g |-> None, x |-> None, y |-> Some(5), d |-> Some(1)],
           [g |-> None, x |-> Some(0), y |-> Some(0), d |-> Some(1)] }

NextStroke ==
    \/ \E l \in SrLines : i < MaxStrokeLines /\ parse_sr(l.empty, l.X, l.Y, l.I, l.J)
                            /\ UNCHANGED non_parser_vars
    \/ \E l \in StrokeLines : i < MaxStrokeLines /\ parse_graphic_command(l.g, l.x, l.y, l.d)
                            /\ UNCHANGED non_parser_vars

SpecStroke == Init /\ [][NextStroke]_vars

\* the step is a D01 stroke outside region mode with a defined current
\* aperture that has no negative primitive
StrokeStep ==
    /\ last'.op = "D01"
    /\ ~state.region_mode /\ ~state'.region_mode
    /\ state.current_aperture \in DOMAIN apertures
    /\ ~apertures[state.current_aperture].has_negative

\* what the step appended, copy by copy: the aperture at the start point, the
\* two triangles of a stroke that moves, the aperture at the end point
StrokeAppended ==
    LET aperture == apertures[state.current_aperture]
        n == Len(aperture.primitives)
        new == SubSeq(current_primitives', Len(current_primitives) + 1,
                      Len(current_primitives'))
        moved == <<state.x, state.y>> # <<last'.x, last'.y>>
        between == IF moved THEN 2 ELSE 0
        per == 2 * n + between
    IN  /\ Len(new) = state.sr_x * state.sr_y * per
        /\ \A sy \in 0..(state.sr_y - 1) : \A sx \in 0..(state.sr_x - 1) :
             LET base == (sy * state.sr_x + sx) * per
                 dx == sx * state.sr_i
                 dy == sy * state.sr_j
             IN  /\ \A k \in 1..n :
                       /\ Geom(new[base + k]) =
                              TranslatedCopy(aperture.primitives[k],
                                             state.x + dx, state.y + dy)
                       /\ Geom(new[base + n + between + k]) =
                              TranslatedCopy(aperture.primitives[k],
                                             last'.x + dx, last'.y + dy)
                 /\ \A t \in 1..between :
                       /\ new[base + n + t].kind = "Triangle"
                       /\ \A v \in 1..3 :
                            new[base + n + t].pts[v][1] \in
                                {state.x + dx, last'.x + dx,
                                 state.x + dx + aperture.radius, state.x + dx - aperture.radius,
                                 last'.x + dx + aperture.radius, last'.x + dx - aperture.radius}

TwinLP(t, polarity_char) ==
    IF polarity_char \notin {"D", "C"} THEN t
    ELSE LET new_polarity == IF polarity_char = "D" THEN "Positive" ELSE "Negative"
             flush == t.polarity # new_polarity /\ t.current_primitives # <<>>
         IN  [t EXCEPT !.positive_layers =
                            IF flush /\ t.polarity = "Positive"
                            THEN Append(@, t.current_primitives) ELSE @,
                       !.negative_layers =
                            IF flush /\ t.polarity # "Positive"
                            THEN Append(@, t.current_primitives) ELSE @,
                       !.current_primitives = IF flush THEN <<>> ELSE @,
                       !.polarity = new_polarity]

\* the end of parse on the second parser
TwinEnd(t) ==
    LET flush == t.current_primitives # <<>>
        pos == IF flush /\ t.polarity = "Positive"
               THEN Append(t.positive_layers, t.current_primitives) ELSE t.positive_layers
        neg == IF flush /\ t.polarity # "Positive"
               THEN Append(t.negative_layers, t.current_primitives) ELSE t.negative_layers
    IN  [t EXCEPT !.positive_layers = pos, !.negative_layers = neg,
                  !.done = TRUE, !.layers = Interleave(pos, neg)]

NextIF ==
    \/ \E c \in {"D", "C"} :
          /\ i < MaxLines /\ parse_lp(c)
          /\ without_if' = TwinLP(without_if, c)
          /\ UNCHANGED non_parser_twin_vars
    \/ \E s \in {"POS", "NEG"} :
          /\ i < MaxLines /\ parse_if(s)
          /\ UNCHANGED without_if
          /\ UNCHANGED non_parser_twin_vars
    \/ \E l \in PolarityLines :
          /\ i < MaxLines /\ parse_graphic_command(l.g, l.x, l.y, l.d)
          /\ without_if' = [without_if EXCEPT !.current_primitives =
                                @ \o SubSeq(current_primitives', Len(current_primitives) + 1,
                                            Len(current_primitives'))]
          /\ UNCHANGED non_parser_twin_vars
    \/ /\ EndOfParse
       /\ without_if' = TwinEnd(without_if)
       /\ UNCHANGED non_parser_twin_vars

SpecIF == Init /\ [][NextIF]_vars

\* C21: %IF never affects the output: the sublayers returned for an input are
\* those returned for the same input without its %IFPOS / %IFNEG lines (same
\* primitives, same sublayer for each primitive, same order).
C21_ImagePolarityIgnored ==
    parse_result.done => parse_result.layers = without_if.layers

(***************************************************************************)
(* %LM and %LS (parser.rs parse_command): both branches of the dispatcher  *)
(* are comments, so the line is consumed and nothing else happens.  No     *)
(* function of the sources writes mirror_x or mirror_y.                    *)
(***************************************************************************)
\* %LMN*% %LMX*% %LMY*% %LMXY*%
CommandLM(mode) ==
    /\ ~parse_result.done
    /\ i' = i + 1
    /\ last' = [Last("LM", 0, 0) EXCEPT !.lm = mode]
    /\ UNCHANGED <<state, apertures, current_primitives, positive_layers, negative_layers,
                   region_contours, parse_result, emitted>>

\* %LSs*%
CommandLS(scale) ==
    /\ ~parse_result.done
    /\ i' = i + 1
    /\ last' = [Last("LS", 0, 0) EXCEPT !.ls = scale]
    /\ UNCHANGED <<state, apertures, current_primitives, positive_layers, negative_layers,
                   region_contours, parse_result, emitted>>

MaxLmLines == 4

\* D10*, X5Y3D02*, X2D01*, Y4D01*, X1Y1D03*
TransformLines ==
    { [g |-> None, x |-> None, y |-> None, d |-> Some(10)],
      [g |-> None, x |-> Some(5), y |-> Some(3), d |-> Some(2)],
      [g |-> None, x |-> Some(2), y |-> None, d |-> Some(1)],
      [g |-> None, x |-> None, y |-> Some(4), d |-> Some(1)],
      [g |-> None, x |-> Some(1), y |-> Some(1), d |-> Some(3)] }

NextLM ==
    \/ \E mode \in {"N", "X", "Y", "XY"} : i < MaxLmLines /\ CommandLM(mode)
                                             /\ UNCHANGED non_parser_vars
    \/ \E scale \in {1, 2} : i < MaxLmLines /\ CommandLS(scale)
                                             /\ UNCHANGED non_parser_vars
    \/ \E l \in TransformLines : i < MaxLmLines /\ parse_graphic_command(l.g, l.x, l.y, l.d)
                                             /\ UNCHANGED non_parser_vars

SpecLM == Init /\ [][NextLM]_vars

\* the value a raw coordinate stands for: unit multiplier, G-code scale,
\* layer scale, then the mirror negation
Transformed(raw, scale, mirrored) ==
    LET scaled == raw * state.unit_multiplier * state.scale * scale
    IN  IF mirrored THEN 0 - scaled ELSE scaled

\* C22: after %LMX, %LMY, %LMXY every later X, Y, or both, is negated, after
\* %LSs every later coordinate is multiplied by s, the scale being applied
\* before the negation; %LMN and %LS1 restore the plain conversion.
C22_LayerTransformsApply ==
    [][\A l \in TransformLines :
          (i < MaxLmLines /\ parse_graphic_command(l.g, l.x, l.y, l.d)) =>
              /\ l.x.some => state'.x = Transformed(l.x.v, last.ls, last.lm \in {"X", "XY"})
              /\ l.y.some => state'.y = Transformed(l.y.v, last.ls, last.lm \in {"Y", "XY"})]_vars

(***************************************************************************)
(* Contour inputs: G36*, G37*, XnYnD01*, XnYn* (no D-code), D02*,          *)
(* XnYnD02*, inside and outside a region.                                  *)
(***************************************************************************)
MaxContourLines == 6

ContourPts == { <<0, 0>>, <<RegionExtent, 0>>, <<0, RegionExtent>> }

ContourLines ==
    { [g |-> Some(g), x |-> None, y |-> None, d |-> None] : g \in {36, 37} }
    \cup { [g |-> None, x |-> Some(pt[1]), y |-> Some(pt[2]), d |-> d] :
             pt \in ContourPts, d \in {Some(1), Some(2), None} }
    \cup { [g |-> None, x |-> None, y |-> None, d |-> Some(2)] }

NextContour ==
    \E l \in ContourLines :
       /\ i < MaxContourLines
       /\ parse_graphic_command(l.g, l.x, l.y, l.d)
       /\ UNCHANGED non_parser_vars

SpecContour == Init /\ [][NextContour]_vars

\* inside a region the list is not empty and only its last contour may be
\* empty; outside a region the list is empty
ContoursWellFormed ==
    IF state.region_mode
    THEN /\ region_contours # <<>>
         /\ \A k \in 1..(Len(region_contours) - 1) : region_contours[k] # <<>>
    ELSE region_contours = <<>>

\* what each command does to the list
ContourStep ==
    /\ last'.op = "G36" => region_contours' = << <<>> >> /\ state'.region_mode
    /\ (state.region_mode /\ last'.op = "D01") =>
          /\ region_contours' =
                 [region_contours EXCEPT ![Len(region_contours)] =
                                             Append(@, <<last'.x, last'.y>>)]
          /\ current_primitives' = current_primitives
    /\ (state.region_mode /\ last'.op = "D02") =>
          region_contours' = IF region_contours[Len(region_contours)] # <<>>
                             THEN Append(region_contours, <<>>)
                             ELSE region_contours
    /\ last'.op = "G37" => region_contours' = <<>> /\ ~state'.region_mode

\* C23: between G36 and G37 the contour list is never empty and only its last
\* contour can be empty: G36 resets it to one empty contour, D01 (explicit,
\* or a bare coordinate with the pen down) appends the target point to the
\* last contour and emits nothing, D02 opens a new contour exactly when the
\* last one is not empty; after G37 the list is empty and region mode is off.
C23_ContourListShape == [](ContoursWellFormed) /\ [][ContourStep]_vars

\* a region whose first contour got a point from an explicit D01 and one from
\* a bare coordinate, then a D02 that opened the second contour, and a second
\* D02 that opened nothing
C23_Witness ==
    /\ state.region_mode
    /\ last.op = "D02"
    /\ Len(region_contours) = 2
    /\ Len(region_contours[1]) = 2
    /\ region_contours[2] = <<>>
    /\ i = 5

(***************************************************************************)
(* Claims about the bookkeeping of the layer table                         *)
(***************************************************************************)
LiveSlots(ls) == {k \in 1..Len(ls) : ls[k].live}

\* C24: after any sequence of add_layer, remove_layer and clear_all, failed
\* calls included, layer_count is the number of occupied slots of the layer
\* table, and every occupied slot has one buffer cache per sublayer.
C24_CountMatchesOccupiedSlots ==
    /\ layer_count = Cardinality(LiveSlots(layers))
    /\ \A k \in LiveSlots(layers) :
          Len(layers[k].buffer_caches) = Len(layers[k].gerber_data)

\* a table with a freed slot before a live layer of two sublayers, right after
\* a remove_layer that failed
C24_Witness ==
    /\ call.op = "remove_layer" /\ ~call.ok
    /\ Len(layers) = 2
    /\ ~layers[1].live
    /\ layers[2].live /\ Len(layers[2].gerber_data) = 2
    /\ layer_count = 1

\* the composite draws of the active ids that name a live layer and have a
\* colour, in the order of the active list
LiveComposites ==
    LET Shown(k) == /\ ~NotLive(layers, active_layer_ids[k])
                    /\ (k - 1) * 3 + 2 < layer_colors
        ids == SelectSeq([k \in 1..Len(active_layer_ids) |-> k], Shown)
    IN  [n \in 1..Len(ids) |->
           [Drawn("composite", active_layer_ids[ids[n]], 0, "texture")
              EXCEPT !.color = (ids[n] - 1) * 3]]

\* C25: composite never reads a slot outside the layer table: an active id
\* that names no live layer (removed, or beyond the table after clear_all) is
\* skipped, the call does not panic and the other layers are drawn.
C25_CompositeSkipsDeadIds ==
    call.op = "composite" => call.ok /\ draw_log = LiveComposites

(***************************************************************************)
(* Renderer::get_boundary (&self): (0, 0, 0, 0) when layer_count is 0,     *)
(* otherwise the min / max fold over the Some slots, starting from         *)
(* (inf, -inf, inf, -inf).                                                 *)
(***************************************************************************)
get_boundary(ls, count) ==
    IF count = 0 THEN Boundary(0, 0, 0, 0)
    ELSE CombinedBoundary(SelectSeq(ls, LAMBDA layer : layer.live),
                          Boundary(Infinity, 0 - Infinity, Infinity, 0 - Infinity))

Finite(v) == 0 - Infinity < v /\ v < Infinity

\* the live layers that have at least one sublayer
DrawnLayers == {k \in LiveSlots(layers) : layers[k].gerber_data # <<>>}

\* C26: after any sequence of add_layer, remove_layer and clear_all,
\* get_boundary returns a finite box with min_x <= max_x and min_y <= max_y:
\* (0, 0, 0, 0) when no layer is live, otherwise the union of the boxes of the
\* live layers, also when a live layer came from an input without sublayers.
C26_BoundaryIsFiniteBox ==
    LET b == get_boundary(layers, layer_count)
    IN  /\ Finite(b.min_x) /\ Finite(b.max_x) /\ Finite(b.min_y) /\ Finite(b.max_y)
        /\ b.min_x <= b.max_x /\ b.min_y <= b.max_y
        /\ LiveSlots(layers) = {} => b = Boundary(0, 0, 0, 0)
        /\ \A k \in DrawnLayers :
              /\ b.min_x <= layers[k].boundary.min_x /\ layers[k].boundary.max_x <= b.max_x
              /\ b.min_y <= layers[k].boundary.min_y /\ layers[k].boundary.max_y <= b.max_y

(***************************************************************************)
(* Claim about empty sublayers                                             *)
(***************************************************************************)
NoEmptySublayer ==
    /\ \A k \in 1..Len(positive_layers) : positive_layers[k] # <<>>
    /\ \A k \in 1..Len(negative_layers) : negative_layers[k] # <<>>
    /\ \A k \in 1..Len(parse_result.layers) : parse_result.layers[k] # <<>>

\* an %LP that names the polarity the parser already has
RepeatedLP == last'.op = "LP" /\ state'.polarity = state.polarity

\* C27: every sublayer returned by parse holds at least one primitive: neither
\* a polarity change nor the end of input creates an empty sublayer, and an
\* %LP that repeats the current polarity does not split the accumulating list.
C27_NoEmptySublayer ==
    /\ [](NoEmptySublayer)
    /\ [][RepeatedLP => UNCHANGED <<current_primitives, positive_layers,
                                    negative_layers>>]_vars

\* a finished parse that returned three sublayers: two polarity changes with
\* primitives before each, and primitives left for the end of input
C27_Witness ==
    /\ parse_result.done
    /\ Len(parse_result.layers) = 3
    /\ current_primitives # <<>>
    /\ Len(positive_layers) + Len(negative_layers) = 3

(***************************************************************************)
(* One session of GerberProcessor (lib.rs): every add_layer calls          *)
(* parse_gerber, which builds a GerberParser with GerberParser::new and    *)
(* runs parse on it.  The inputs define the macro RING, define apertures,  *)
(* change polarity, select and flash.                                      *)
(***************************************************************************)
MaxSessionLines == 3
MaxParses == 1

\* HashMap::new()
NoApertures == [code \in {} |-> Aperture(0, <<>>, FALSE)]

\* GerberParser::new
InitSessionParser ==
    /\ state = DefaultState
    /\ apertures = NoApertures
    /\ current_primitives = <<>>
    /\ positive_layers = <<>>
    /\ negative_layers = <<>>
    /\ region_contours = <<>>
    /\ i = 0
    /\ parse_result = [done |-> FALSE, layers |-> <<>>]
    /\ emitted = <<>>
    /\ last = NoLast

InitSession == InitSessionParser /\ InitRenderer /\ IdleEval /\ IdleMacro /\ IdleData
    /\ IdleOdb /\ IdleTwin /\ IdleSession /\ IdleLoop

\* %AMRING*...*% : the macro is stored under its name
parse_macro(name) ==
    /\ ~parse_result.done
    /\ i' = i + 1
    /\ last' = Last("AM", 0, 0)
    /\ macros' = macros \cup {name}
    /\ UNCHANGED <<state, apertures, current_primitives, positive_layers, negative_layers,
                   region_contours, parse_result, emitted>>

\* %ADD with the macro table of this parser: a shape name that is neither a
\* standard shape nor a macro in the table is an unknown shape
parse_aperture_with_macros(code, shape, p1, p2) ==
    parse_aperture(code,
                   IF shape \in {"C", "R", "O", "P"} \/ shape \in macros
                   THEN shape ELSE "NOMACRO",
                   p1, p2)

\* what a parse leaves in its parser when it returns
LeftBehind ==
    [apertures |-> DOMAIN apertures, macros |-> macros, polarity |-> state.polarity,
     mode |-> state.coordinate_mode, current_aperture |-> state.current_aperture,
     pending |-> Len(current_primitives)]

\* C28 mutant: one parser is kept and reset() between inputs, which clears the
\* sublayer tables, the accumulating list, the contours and the state
ParseGerberAfterReset ==
    /\ parse_result.done
    /\ Len(parses) < MaxParses
    /\ state' = DefaultState
    /\ current_primitives' = <<>>
    /\ positive_layers' = <<>>
    /\ negative_layers' = <<>>
    /\ region_contours' = <<>>
    /\ i' = 0
    /\ parse_result' = [done |-> FALSE, layers |-> <<>>]
    /\ emitted' = <<>>
    /\ last' = NoLast
    /\ parses' = Append(parses, LeftBehind)
    /\ UNCHANGED <<apertures, macros>>

\* the next add_layer: parse_gerber starts from GerberParser::new
parse_gerber ==
    /\ parse_result.done
    /\ Len(parses) < MaxParses
    /\ state' = DefaultState
    /\ apertures' = NoApertures
    /\ macros' = {}
    /\ current_primitives' = <<>>
    /\ positive_layers' = <<>>
    /\ negative_layers' = <<>>
    /\ region_contours' = <<>>
    /\ i' = 0
    /\ parse_result' = [done |-> FALSE, layers |-> <<>>]
    /\ emitted' = <<>>
    /\ last' = NoLast
    /\ parses' = Append(parses, LeftBehind)

\* D12*, G91*, X1Y0D03*
SessionLines ==
    { [g |-> None, x |-> None, y |-> None, d |-> Some(12)],
      [g |-> Some(91), x |-> None, y |-> None, d |-> None],
      [g |-> None, x |-> Some(1), y |-> Some(0), d |-> Some(3)] }

\* %ADD12RING,4X2*
SessionAdLines ==
    { [code |-> "12", shape |-> "RING", p1 |-> Some(4), p2 |-> Some(2)] }

NextSession ==
    \/ i < MaxSessionLines /\ parse_macro("RING")
          /\ UNCHANGED parses /\ UNCHANGED non_parser_session_vars
    \/ \E l \in SessionAdLines :
          /\ i < MaxSessionLines /\ parse_aperture_with_macros(l.code, l.shape, l.p1, l.p2)
          /\ UNCHANGED session_vars /\ UNCHANGED non_parser_session_vars
    \/ i < MaxSessionLines /\ parse_lp("C")
          /\ UNCHANGED session_vars /\ UNCHANGED non_parser_session_vars
    \/ \E l \in SessionLines :
          /\ i < MaxSessionLines /\ parse_graphic_command(l.g, l.x, l.y, l.d)
          /\ UNCHANGED session_vars /\ UNCHANGED non_parser_session_vars
    \/ EndOfParse /\ UNCHANGED session_vars /\ UNCHANGED non_parser_session_vars
    \/ parse_gerber /\ UNCHANGED non_parser_session_vars

SpecSession == InitSession /\ [][NextSession]_vars

\* the parser is about to read the first line of an input
AtFirstLine == i = 0 /\ ~parse_result.done

\* C28: each add_layer parses its input from the default parser state with
\* empty aperture and macro tables: no aperture, macro, mode, polarity or
\* pending primitive of an earlier input is there when an input starts, so the
\* sublayers of an input do not depend on the earlier inputs.
C28_EachParseStartsFresh ==
    AtFirstLine =>
        /\ state = DefaultState
        /\ apertures = NoApertures
        /\ macros = {}
        /\ current_primitives = <<>>
        /\ positive_layers = <<>>
        /\ negative_layers = <<>>
        /\ region_contours = <<>>

\* the start of a second input, after an input that defined the macro and an
\* aperture from it and ended in clear polarity
C28_Witness ==
    /\ AtFirstLine
    /\ Len(parses) = 1
    /\ parses[1].macros = {"RING"}
    /\ "12" \in parses[1].apertures
    /\ parses[1].polarity = "Negative"

(***************************************************************************)
(* The line loop (parser.rs GerberParser::parse and the head of            *)
(* parse_command).  The input is the list of its trimmed lines, a line the *)
(* sequence of its characters.  One step is one iteration of the main      *)
(* loop, or one iteration of the loop of parse_command that joins the      *)
(* lines of a command; the iteration that ends a command also takes the    *)
(* `i += 1` that closes the iteration of the main loop.  What a command    *)
(* does to the parser is the subject of the other sections; here a command *)
(* is recorded with the lines it was given.                                *)
(***************************************************************************)
MaxInputLines == 4

starts_with(line, prefix) ==
    Len(line) >= Len(prefix) /\ SubSeq(line, 1, Len(prefix)) = prefix

ends_with(line, c) == line # <<>> /\ line[Len(line)] = c

\* the lines the inputs are made of: an empty line, %L% (a whole extended
\* command), %A (the first line of a longer one), 1 (a line that neither
\* starts nor ends anything), 1% (a last line), D (a graphic command) and
\* G04 (a comment)
InputLines ==
    { <<>>, <<"%", "L", "%">>, <<"%", "A">>, <<"1">>, <<"1", "%">>, <<"D">>,
      <<"G", "0", "4">> }

Inputs == UNION {[1..n -> InputLines] : n \in 0..MaxInputLines}

InitLoop ==
    /\ lines \in Inputs
    /\ line_idx = 0
    /\ loop_pc = "main"
    /\ buffer = <<>>
    /\ executed = <<>>

InitLines == InitParser /\ InitRenderer /\ IdleEval /\ IdleMacro /\ IdleData /\ IdleOdb
    /\ IdleTwin /\ IdleSession /\ InitLoop

\* a command run on the text of lines from..to (1-based); resume is i after
\* the iteration of the main loop that ran it
Ran(kind, text, from, to, resume) ==
    [kind |-> kind, text |-> text, from |-> from, to |-> to, resume |-> resume]

IsGraphic(line) ==
    \E c \in {"G", "D", "X", "Y", "I", "J"} : starts_with(line, <<c>>)

\* C30 mutant: a line that starts with % is a whole command
MainStepNeverJoins ==
    /\ loop_pc = "main"
    /\ line_idx < Len(lines)
    /\ LET line_ref == lines[line_idx + 1]
       IN  /\ executed' =
                 IF line_ref = <<>> THEN executed
                 ELSE IF starts_with(line_ref, <<"%">>)
                 THEN Append(executed, Ran("extended", line_ref, line_idx + 1,
                                           line_idx + 1, line_idx + 1))
                 ELSE IF starts_with(line_ref, <<"G", "0", "4">>) THEN executed
                 ELSE IF IsGraphic(line_ref)
                 THEN Append(executed, Ran("graphic", line_ref, line_idx + 1,
                                           line_idx + 1, line_idx + 1))
                 ELSE executed
           /\ UNCHANGED <<buffer, loop_pc>>
    /\ line_idx' = line_idx + 1
    /\ UNCHANGED lines

\* one iteration of `while i < length` that does not enter the joining loop,
\* or its first half when it does
MainStep ==
    /\ loop_pc = "main"
    /\ line_idx < Len(lines)
    /\ LET line_ref == lines[line_idx + 1]
       IN  IF line_ref = <<>>
           THEN UNCHANGED <<buffer, executed, loop_pc>>
           ELSE IF starts_with(line_ref, <<"%">>)
           THEN IF ~ends_with(line_ref, "%")
                THEN /\ buffer' = <<line_ref>>
                     /\ loop_pc' = "join"
                     /\ UNCHANGED executed
                ELSE /\ executed' = Append(executed,
                                           Ran("extended", line_ref, line_idx + 1,
                                               line_idx + 1, line_idx + 1))
                     /\ UNCHANGED <<buffer, loop_pc>>
           ELSE IF starts_with(line_ref, <<"G", "0", "4">>)
           THEN UNCHANGED <<buffer, executed, loop_pc>>
           ELSE IF IsGraphic(line_ref)
           THEN /\ executed' = Append(executed,
                                      Ran("graphic", line_ref, line_idx + 1,
                                          line_idx + 1, line_idx + 1))
                /\ UNCHANGED <<buffer, loop_pc>>
           ELSE UNCHANGED <<buffer, executed, loop_pc>>
    /\ line_idx' = line_idx + 1
    /\ UNCHANGED lines

\* C29 mutant: after the last line of a command the main loop goes on from
\* that line
JoinStepRereads ==
    /\ loop_pc = "join"
    /\ IF line_idx < Len(lines)
       THEN LET next_line == lines[line_idx + 1]
                joined == Append(buffer, next_line)
            IN  IF ends_with(next_line, "%")
                THEN /\ executed' = Append(executed,
                                           Ran("extended", Concat(joined),
                                               line_idx + 1 - Len(buffer),
                                               line_idx + 1, line_idx))
                     /\ buffer' = <<>>
                     /\ loop_pc' = "main"
                     /\ line_idx' = line_idx
                ELSE /\ buffer' = joined
                     /\ line_idx' = line_idx + 1
                     /\ UNCHANGED <<executed, loop_pc>>
       ELSE /\ executed' = Append(executed,
                                  Ran("extended", Concat(buffer),
                                      line_idx + 1 - Len(buffer), line_idx, line_idx + 1))
            /\ buffer' = <<>>
            /\ loop_pc' = "main"
            /\ line_idx' = line_idx + 1
    /\ UNCHANGED lines

\* one iteration of `while *i < length` in parse_command, or its exit when
\* the input has ended; the command runs when the loop is left
JoinStep ==
    /\ loop_pc = "join"
    /\ IF line_idx < Len(lines)
       THEN LET next_line == lines[line_idx + 1]
                joined == Append(buffer, next_line)
            IN  IF ends_with(next_line, "%")
                THEN /\ executed' = Append(executed,
                                           Ran("extended", Concat(joined),
                                               line_idx + 1 - Len(buffer),
                                               line_idx + 1, line_idx + 1))
                     /\ buffer' = <<>>
                     /\ loop_pc' = "main"
                ELSE /\ buffer' = joined
                     /\ UNCHANGED <<executed, loop_pc>>
       ELSE /\ executed' = Append(executed,
                                  Ran("extended", Concat(buffer),
                                      line_idx + 1 - Len(buffer), line_idx, line_idx + 1))
            /\ buffer' = <<>>
            /\ loop_pc' = "main"
    /\ line_idx' = line_idx + 1
    /\ UNCHANGED lines

\* `while i < length` is false
ExitLoop ==
    /\ loop_pc = "main"
    /\ line_idx >= Len(lines)
    /\ loop_pc' = "done"
    /\ UNCHANGED <<lines, line_idx, buffer, executed>>

NextLoop ==
    \/ MainStep /\ UNCHANGED non_loop_vars
    \/ JoinStep /\ UNCHANGED non_loop_vars
    \/ ExitLoop /\ UNCHANGED non_loop_vars

SpecLoop == InitLines /\ [][NextLoop]_vars

\* the loop is not held back: a step that can be taken is taken
SpecLoopLive == InitLines /\ [][NextLoop]_vars /\ WF_vars(NextLoop)

\* no line was given to two commands
ConsumedOnce ==
    \A a, b \in 1..Len(executed) :
        a < b => executed[a].to < executed[b].from

\* C29: parse terminates on every finite input: the line index strictly
\* increases on every iteration of the main loop and of the loop that joins
\* the lines of a command, and every line is consumed by at most one command.
C29_ParseTerminates ==
    /\ <>(loop_pc = "done")
    /\ [][loop_pc' = "done" \/ line_idx' > line_idx]_vars
    /\ [](ConsumedOnce)

\* a finished parse of four lines that ran a graphic command and then a
\* command whose last line never came: the index ended beyond the input
C29_Witness ==
    /\ loop_pc = "done"
    /\ Len(lines) = 4
    /\ Len(executed) = 2
    /\ executed[1].kind = "graphic"
    /\ executed[2].from = 2 /\ executed[2].to = 4
    /\ line_idx = 5

\* the later lines that end with %
Closers(from) == {k \in (from + 1)..Len(lines) : ends_with(lines[k], "%")}

\* C30: an extended command whose first line starts with % and does not end
\* with % is joined with the lines after it up to and including the first
\* that ends with %, and parsing resumes with the line after that one; when
\* no later line ends with %, all the remaining lines are absorbed into the
\* command, so no graphic command after it is executed.
C30_JoinedToFirstClosingLine ==
    \A n \in 1..Len(executed) :
        LET e == executed[n]
            closers == Closers(e.from)
            first == CHOOSE k \in closers : \A j \in closers : k <= j
        IN  (e.kind = "extended" /\ ~ends_with(lines[e.from], "%")) =>
               IF closers # {}
               THEN /\ e.to = first
                    /\ e.text = Concat(SubSeq(lines, e.from, first))
                    /\ e.resume = first
                    /\ \A m \in (n + 1)..Len(executed) : executed[m].from > first
               ELSE /\ e.to = Len(lines)
                    /\ e.text = Concat(SubSeq(lines, e.from, Len(lines)))
                    /\ n = Len(executed)

\* a finished parse in which a command took three lines and the graphic
\* command on the line after them was executed
C30_Witness ==
    /\ loop_pc = "done"
    /\ Len(executed) = 2
    /\ executed[1].kind = "extended"
    /\ executed[1].from = 1 /\ executed[1].to = 3
    /\ executed[1].text = <<"%", "A", "1", "1", "%">>
    /\ executed[2].kind = "graphic" /\ executed[2].from = 4
====
